---------------------------- MODULE Spec2Model ----------------------------
(***************************************************************************)
(* A model of the vx0net daemon: tier policy, node orchestrator, resolver, *)
(* RIB and tunnel manager.  Each subsystem has its own variables and its   *)
(* own specification (SpecTier, SpecNode, SpecDns, SpecRib, SpecTunnel);   *)
(* a specification leaves the other subsystems' variables untouched.       *)
(***************************************************************************)
EXTENDS Integers, Sequences, FiniteSets, TLC

VARIABLES
    tierCall,   \* tier policy: the call made, its function and arguments
    tierRet,    \* tier policy: what the call returned ("pending" before it ran)
    node,       \* the Vx0Node: not constructed, or its asn, tier and address
    nodeRet,    \* the last orchestrator call: function, arguments, result
    peers,      \* Vx0Node.peers: peer_id -> PeerConnection
    activeTunnels, \* Vx0Node.active_tunnels: peer_id -> tunnel_id
    addTask,    \* per task inside Vx0Node::add_peer: its position, its peer
                \* and the peer count it read
    opTask,     \* per task inside a tunnel operation of the node: the
                \* operation, its position and the locks it holds
    records,    \* Vx0DNS.records: name -> sequence of DNSRecord
    dnsRet,     \* the last resolver call: function, arguments, result
    rib,        \* RouteTable: [routes: prefix -> RouteEntry, version]
    ribLock,    \* the task holding BGPDaemon.route_table's write lock, or 0
    ribTask,    \* per task of BGPDaemon.add_route: its position and its route
    ribRet,     \* the last RouteTable call: function, arguments, result
    ribWrites,  \* history: the number of mutations that took effect
    tunnels,    \* TunnelManager.tunnels: tunnel_id -> IPSecTunnel
    tunLock,    \* the rekey in progress holding the registry's write lock, or 0
    tunRet,     \* the last tunnel-manager call: function, arguments, result
    tunIssued,  \* history: the number of tunnel ids generated so far
    tunHist,    \* history per registered tunnel: the successful sends and
                \* receives, and the ciphertexts sent under the current keys
    bgpSess,    \* a BGPSession value: none yet, or its state and the states it took
    bgpListener,\* the accept loop spawned by BGPProtocol::start_server
    bgpDrv,     \* per accepted connection: the task running handle_bgp_connection
    bgpRet,     \* the last peering event: function, arguments, result
    bgpStream   \* one connection's byte stream: what the peer wrote, what is
                \* unread, where receive_message stands, what was delivered

tierVars == <<tierCall, tierRet>>
nodeVars == <<node, nodeRet, peers, activeTunnels, addTask, opTask>>
dnsVars == <<records, dnsRet>>
ribVars == <<rib, ribLock, ribTask, ribRet, ribWrites>>
tunVars == <<tunnels, tunLock, tunRet, tunIssued, tunHist>>
bgpVars == <<bgpSess, bgpListener, bgpDrv, bgpRet, bgpStream>>
vars == <<tierVars, nodeVars, dnsVars, ribVars, tunVars, bgpVars>>

NoCall == [fn |-> "none"]

-----------------------------------------------------------------------------
(* Tier policy: src/node/mod.rs, impl NodeTier, and the ASN classifiers.    *)

NodeTier == {"Backbone", "Regional", "Edge"}

get_asn_range(t) ==
    CASE t = "Backbone" -> <<65000, 65099>>
      [] t = "Regional" -> <<65100, 65999>>
      [] t = "Edge"     -> <<66000, 69999>>

max_peers(t) ==
    CASE t = "Backbone" -> 50
      [] t = "Regional" -> 20
      [] t = "Edge"     -> 5

can_peer_with_NoEdgeUplink(self, other) ==
    \/ self = "Backbone" /\ other = "Backbone"
    \/ self = "Backbone" /\ other = "Regional"
    \/ self = "Regional" /\ other = "Backbone"
    \/ self = "Regional" /\ other = "Regional"
    \/ self = "Regional" /\ other = "Edge"

can_peer_with(self, other) ==
    CASE self = "Backbone" /\ other = "Backbone" -> TRUE
      [] self = "Backbone" /\ other = "Regional" -> TRUE
      [] self = "Regional" /\ other = "Backbone" -> TRUE
      [] self = "Regional" /\ other = "Regional" -> TRUE
      [] self = "Regional" /\ other = "Edge"     -> TRUE
      [] self = "Edge"     /\ other = "Regional" -> TRUE
      [] OTHER -> FALSE

Vx0Node_asn_to_tier(asn) ==
    IF asn >= 65000 /\ asn <= 65099 THEN "Backbone"
    ELSE IF asn >= 65100 /\ asn <= 65999 THEN "Regional"
    ELSE IF asn >= 66000 /\ asn <= 69999 THEN "Edge"
    ELSE "Edge"

RoutingPolicy_asn_to_tier_OffByOne(asn) ==
    IF asn >= 65000 /\ asn <= 65100 THEN "Backbone"
    ELSE IF asn >= 65101 /\ asn <= 65999 THEN "Regional"
    ELSE "Edge"

RoutingPolicy_asn_to_tier(asn) ==
    IF asn >= 65000 /\ asn <= 65099 THEN "Backbone"
    ELSE IF asn >= 65100 /\ asn <= 65999 THEN "Regional"
    ELSE IF asn >= 66000 /\ asn <= 69999 THEN "Edge"
    ELSE "Edge"

BootstrapManager_asn_to_tier(asn) ==
    IF asn >= 65000 /\ asn <= 65099 THEN "Backbone"
    ELSE IF asn >= 65100 /\ asn <= 65999 THEN "Regional"
    ELSE IF asn >= 66000 /\ asn <= 69999 THEN "Edge"
    ELSE "Edge"

NetworkJoiner_asn_to_tier(asn) ==
    IF asn >= 65000 /\ asn <= 65099 THEN "Backbone"
    ELSE IF asn >= 65100 /\ asn <= 65999 THEN "Regional"
    ELSE IF asn >= 66000 /\ asn <= 69999 THEN "Edge"
    ELSE "Edge"

Classifiers == {"Vx0Node", "RoutingPolicy", "BootstrapManager", "NetworkJoiner"}

asn_to_tier_of(impl, asn) ==
    CASE impl = "Vx0Node"          -> Vx0Node_asn_to_tier(asn)
      [] impl = "RoutingPolicy"    -> RoutingPolicy_asn_to_tier(asn)
      [] impl = "BootstrapManager" -> BootstrapManager_asn_to_tier(asn)
      [] impl = "NetworkJoiner"    -> NetworkJoiner_asn_to_tier(asn)

(* The ASNs the tier functions are called with: every ASN of a window       *)
(* around the allocated ranges, and the two ends of the representable range.*)
AsnProbeMargin == 20
AsnInputs == {0, 2147483647} \cup ((65000 - AsnProbeMargin)..(69999 + AsnProbeMargin))

TierCalls ==
    [fn : {"can_peer_with"}, self : NodeTier, other : NodeTier]
        \cup [fn : {"asn_to_tier"}, impl : Classifiers, asn : AsnInputs]
        \cup [fn : {"get_asn_range"}, self : NodeTier]
        \cup [fn : {"max_peers"}, self : NodeTier]

Pending == [done |-> FALSE]
Returned(v) == [done |-> TRUE, val |-> v]

CallCanPeerWith ==
    /\ ~tierRet.done /\ tierCall.fn = "can_peer_with"
    /\ tierRet' = Returned(can_peer_with(tierCall.self, tierCall.other))
    /\ UNCHANGED <<tierCall, nodeVars, dnsVars, ribVars, tunVars, bgpVars>>

CallAsnToTier ==
    /\ ~tierRet.done /\ tierCall.fn = "asn_to_tier"
    /\ tierRet' = Returned(asn_to_tier_of(tierCall.impl, tierCall.asn))
    /\ UNCHANGED <<tierCall, nodeVars, dnsVars, ribVars, tunVars, bgpVars>>

CallGetAsnRange ==
    /\ ~tierRet.done /\ tierCall.fn = "get_asn_range"
    /\ tierRet' = Returned(get_asn_range(tierCall.self))
    /\ UNCHANGED <<tierCall, nodeVars, dnsVars, ribVars, tunVars, bgpVars>>

CallMaxPeers ==
    /\ ~tierRet.done /\ tierCall.fn = "max_peers"
    /\ tierRet' = Returned(max_peers(tierCall.self))
    /\ UNCHANGED <<tierCall, nodeVars, dnsVars, ribVars, tunVars, bgpVars>>

-----------------------------------------------------------------------------
(* Text.  A string the code takes apart (a domain name, an address) is a    *)
(* sequence of one-character strings.                                       *)

Digits == <<"0", "1", "2", "3", "4", "5", "6", "7", "8", "9">>

IsDigit(c) == \E i \in 1..10 : Digits[i] = c

DigitVal(c) == (CHOOSE i \in 1..10 : Digits[i] = c) - 1

\* str::ends_with
ends_with(s, suffix) ==
    /\ Len(s) >= Len(suffix)
    /\ SubSeq(s, Len(s) - Len(suffix) + 1, Len(s)) = suffix

\* The parts of s between the separators c (str::split).
RECURSIVE split(_, _)
split(s, c) ==
    IF \A i \in 1..Len(s) : s[i] # c
    THEN <<s>>
    ELSE LET i == CHOOSE k \in 1..Len(s) : s[k] = c /\ \A j \in 1..(k - 1) : s[j] # c
         IN  <<SubSeq(s, 1, i - 1)>> \o split(SubSeq(s, i + 1, Len(s)), c)

RECURSIVE DecimalValue(_)
DecimalValue(p) ==
    IF Len(p) = 0 THEN 0
    ELSE 10 * DecimalValue(SubSeq(p, 1, Len(p) - 1)) + DigitVal(p[Len(p)])

RECURSIVE DecimalString(_)
DecimalString(n) ==
    IF n < 10 THEN <<Digits[n + 1]>>
    ELSE DecimalString(n \div 10) \o <<Digits[(n % 10) + 1]>>

None == <<>>
Some(x) == <<x>>

\* One octet of a dotted quad as <Ipv4Addr as FromStr> reads it: one to three
\* digits, no leading zero, at most 255.
IsOctetText(p) ==
    /\ Len(p) \in 1..3
    /\ \A i \in 1..Len(p) : IsDigit(p[i])
    /\ (Len(p) > 1 => p[1] # "0")
    /\ DecimalValue(p) <= 255

\* str::parse::<Ipv4Addr>: Some(<<a, b, c, d>>) or None (AddrParseError).
ParseIpv4(s) ==
    LET parts == split(s, ".")
    IN  IF Len(parts) = 4 /\ \A i \in 1..4 : IsOctetText(parts[i])
        THEN Some([i \in 1..4 |-> DecimalValue(parts[i])])
        ELSE None

\* <Ipv4Addr as Display>::fmt
Ipv4ToString(ip) ==
    DecimalString(ip[1]) \o <<".">> \o DecimalString(ip[2]) \o <<".">>
        \o DecimalString(ip[3]) \o <<".">> \o DecimalString(ip[4])

-----------------------------------------------------------------------------
(* Node orchestrator: src/node/mod.rs, impl Vx0Node.                        *)

\* The tier a configuration string declares (the match of Vx0Node::new).
ParseTier(s) ==
    CASE s = "Backbone" -> "Backbone"
      [] s = "Regional" -> "Regional"
      [] s = "Edge"     -> "Edge"
      [] s = "Tier1"    -> "Backbone"
      [] s = "Tier2"    -> "Regional"
      [] OTHER          -> "Edge"

AsnInTierRange_Exclusive(asn, tier) ==
    ~(asn <= get_asn_range(tier)[1] \/ asn >= get_asn_range(tier)[2])

\* The range check of Vx0Node::new, negated: the ASN is valid for the tier.
AsnInTierRange(asn, tier) ==
    ~(asn < get_asn_range(tier)[1] \/ asn > get_asn_range(tier)[2])

\* Vx0Node::new(config): <<result, node>>.  ipv6_parses stands for the outcome
\* of the standard library's Ipv6Addr parse of config.node.ipv6_address.
Vx0Node_new(config) ==
    IF ParseIpv4(config.ipv4_address) = None THEN <<"ConfigError", [state |-> "none"]>>
    ELSE IF ~config.ipv6_parses THEN <<"ConfigError", [state |-> "none"]>>
    ELSE LET tier == ParseTier(config.tier)
         IN  IF ~AsnInTierRange(config.asn, tier)
             THEN <<"ConfigError", [state |-> "none"]>>
             ELSE <<"Ok", [state |-> "constructed", asn |-> config.asn, tier |-> tier,
                          ipv4_addr |-> ParseIpv4(config.ipv4_address)[1]]>>

get_peer_count(ps) == Cardinality(DOMAIN ps)

add_peer_admit_NoTierCheck(tier, current_peers, peer) ==
    IF current_peers >= max_peers(tier) THEN "NetworkError" ELSE "Ok"

add_peer_admit_OverCap(tier, current_peers, peer) ==
    IF current_peers > max_peers(tier) THEN "NetworkError"
    ELSE IF ~can_peer_with(tier, Vx0Node_asn_to_tier(peer.peer_asn)) THEN "NetworkError"
    ELSE "Ok"

\* The two admission checks of add_peer, in the code's order.
add_peer_admit(tier, current_peers, peer) ==
    IF current_peers >= max_peers(tier) THEN "NetworkError"
    ELSE IF ~can_peer_with(tier, Vx0Node_asn_to_tier(peer.peer_asn)) THEN "NetworkError"
    ELSE "Ok"

\* HashMap::insert(k, v)
MapInsert(m, k, v) == [x \in DOMAIN m \cup {k} |-> IF x = k THEN v ELSE m[x]]

\* HashMap::remove(k)
MapRemove(m, k) == [x \in DOMAIN m \ {k} |-> m[x]]

\* PeerConnection::new(peer_id, peer_asn, _)
PeerConnection_new(id, asn) ==
    [peer_id |-> id, peer_asn |-> asn, status |-> "Disconnected"]

\* PeerConnection::connect: the status a connection attempt leaves.
connect(peer, reached) ==
    [peer EXCEPT !.status = IF reached THEN "Connected" ELSE "Failed"]

stop_ClearsPeers(ps) == << >>

\* Vx0Node::stop: every peer of the map is marked Disconnected.
stop(ps) == [id \in DOMAIN ps |-> [ps[id] EXCEPT !.status = "Disconnected"]]

(* Inputs.  Peer ids are UUIDs: a fresh one is modelled by the smallest     *)
(* unused number.  The first MaxVariedPeers ids take any of PeerAsns and    *)
(* may be re-added or removed; the ids beyond them fill the map up to the   *)
(* tier's limit with FillerAsns, Regional ASNs every tier may peer with.    *)
MaxVariedPeers == 2

ConfigTiers == {"Backbone", "Regional", "Edge", "Tier1", "Tier2", "backbone"}
ConfigAsns == {64999, 65000, 65099, 65100, 65999, 66000, 69999, 70000}
ConfigIpv4 == { <<"1","9","2",".","1","6","8",".","1",".","1","0","0">>,
                <<"2","5","6",".","0",".","0",".","1">>,
                <<"1","0",".","0",".","1">> }
PeerAsns == {65001, 65101, 66002, 70000}
FillerAsns == {65100}

\* The PeerConnection values handed to add_peer, as PeerConnection::new made
\* them.
PeerArgs(id) ==
    IF id <= MaxVariedPeers
    THEN {PeerConnection_new(id, asn) : asn \in PeerAsns}
    ELSE {PeerConnection_new(id, asn) : asn \in FillerAsns}

FreshPeerId == CHOOSE i \in 1..(Cardinality(DOMAIN peers) + 1) : i \notin DOMAIN peers

New ==
    /\ node.state = "none"
    /\ \E a \in ConfigAsns, t \in ConfigTiers, v4 \in ConfigIpv4, v6 \in BOOLEAN :
         LET config == [asn |-> a, tier |-> t, ipv4_address |-> v4, ipv6_parses |-> v6]
             r == Vx0Node_new(config)
         IN  /\ node' = r[2]
             /\ nodeRet' = [fn |-> "new", config |-> config, result |-> r[1]]
             /\ peers' = << >>
             /\ UNCHANGED <<activeTunnels, addTask, opTask>>
    /\ UNCHANGED <<tierVars, dnsVars, ribVars, tunVars, bgpVars>>

AddPeer ==
    /\ node.state = "constructed"
    /\ \E id \in ((DOMAIN peers \cap 1..MaxVariedPeers) \cup {FreshPeerId}) :
       \E peer \in PeerArgs(id) :
         LET r == add_peer_admit(node.tier, get_peer_count(peers), peer)
         IN  /\ peers' = IF r = "Ok" THEN MapInsert(peers, peer.peer_id, peer) ELSE peers
             /\ nodeRet' = [fn |-> "add_peer", peer |-> peer, result |-> r]
             /\ UNCHANGED <<node, activeTunnels, addTask, opTask>>
    /\ UNCHANGED <<tierVars, dnsVars, ribVars, tunVars, bgpVars>>

RemovePeer ==
    /\ node.state = "constructed"
    /\ \E id \in ((DOMAIN peers \cap 1..MaxVariedPeers) \cup {FreshPeerId}) :
         /\ peers' = MapRemove(peers, id)
         /\ nodeRet' = [fn |-> "remove_peer", peer_id |-> id, result |-> "Ok"]
         /\ UNCHANGED <<node, activeTunnels, addTask, opTask>>
    /\ UNCHANGED <<tierVars, dnsVars, ribVars, tunVars, bgpVars>>

\* create_test_config(hostname, asn, ip) of bin/simple_test.rs; the defaults
\* of Vx0Config::load are create_test_config(_, 65001, "192.168.1.100").
create_test_config(asn, ip) ==
    [asn |-> asn, tier |-> "Edge", ipv4_address |-> ip, ipv6_parses |-> TRUE]

\* main of bin/simple_test.rs up to the peer counts it prints: [result,
\* node1, peers1, peers2].  Every `?` returns the error from main.
simple_test_main ==
    LET config1 == create_test_config(65001, <<"1","9","2",".","1","6","8",".","1",".","1","0","0">>)
        config2 == create_test_config(65002, <<"1","9","2",".","1","6","8",".","1",".","1","0","1">>)
        node1 == Vx0Node_new(config1)
        node2 == Vx0Node_new(config2)
        peer1_for_node2 == PeerConnection_new(1, node1[2].asn)
        peer2_for_node1 == PeerConnection_new(2, node2[2].asn)
        added1 == add_peer_admit(node1[2].tier, get_peer_count(<< >>), peer2_for_node1)
        added2 == add_peer_admit(node2[2].tier, get_peer_count(<< >>), peer1_for_node2)
        failed(result, n1, p1) ==
            [result |-> result, node1 |-> n1, peers1 |-> p1, peers2 |-> << >>]
    IN  IF node1[1] # "Ok" THEN failed(node1[1], node1[2], << >>)
        ELSE IF node2[1] # "Ok" THEN failed(node2[1], node1[2], << >>)
        ELSE IF added1 # "Ok" THEN failed(added1, node1[2], << >>)
        ELSE IF added2 # "Ok" THEN failed(added2, node1[2], MapInsert(<< >>, 2, peer2_for_node1))
        ELSE [result |-> "Ok", node1 |-> node1[2],
              peers1 |-> MapInsert(<< >>, 2, peer2_for_node1),
              peers2 |-> MapInsert(<< >>, 1, peer1_for_node2)]

\* bin/simple_test.rs run from the start; node1 is the node followed.
SimpleTest ==
    /\ node.state = "none"
    /\ node' = simple_test_main.node1
    /\ peers' = simple_test_main.peers1
    /\ nodeRet' = [fn |-> "simple_test", result |-> simple_test_main.result,
                   node1_peers |-> get_peer_count(simple_test_main.peers1),
                   node2_peers |-> get_peer_count(simple_test_main.peers2)]
    /\ UNCHANGED <<activeTunnels, addTask, opTask>>
    /\ UNCHANGED <<tierVars, dnsVars, ribVars, tunVars, bgpVars>>

(* Vx0Node::add_peer step by step, for callers running as separate tasks  *)
(* (the join task, the periodic discovery task).  The count is read under  *)
(* the read lock of the peer map, which is released before the checks; the *)
(* insert takes the write lock afterwards.  Task t hands over a peer with  *)
(* a fresh id of its own.                                                  *)
AddTasks == {1, 2}

TaskPeerId(t) == max_peers(node.tier) + t

\* What a task hands to add_peer: a PeerConnection as new made it, or one its
\* caller has run connect() on, which succeeded or failed.
TaskPeers(t) ==
    {PeerConnection_new(TaskPeerId(t), asn) : asn \in PeerAsns} \cup
    {connect(PeerConnection_new(TaskPeerId(t), asn), reached) :
         asn \in FillerAsns, reached \in BOOLEAN}

\* add_peer is called: nothing has been read yet.
AddPeerCall ==
    /\ node.state = "constructed"
    /\ \E t \in AddTasks \ DOMAIN addTask :
       \E peer \in TaskPeers(t) :
         addTask' = MapInsert(addTask, t,
                              [pc |-> "count", peer |-> peer, result |-> Pending])
    /\ UNCHANGED <<node, nodeRet, peers, activeTunnels, opTask>>
    /\ UNCHANGED <<tierVars, dnsVars, ribVars, tunVars, bgpVars>>

\* get_peer_count().await and the two checks made on what it returned.
AddPeerCheck ==
    /\ \E t \in DOMAIN addTask :
         /\ addTask[t].pc = "count"
         /\ LET r == add_peer_admit(node.tier, get_peer_count(peers), addTask[t].peer)
            IN  IF r = "Ok"
                THEN /\ addTask' = [addTask EXCEPT ![t].pc = "insert"]
                     /\ UNCHANGED nodeRet
                ELSE /\ addTask' = [addTask EXCEPT ![t].pc = "done",
                                                   ![t].result = Returned(r)]
                     /\ nodeRet' = [fn |-> "add_peer", peer |-> addTask[t].peer,
                                    result |-> r]
    /\ UNCHANGED <<node, peers, activeTunnels, opTask>>
    /\ UNCHANGED <<tierVars, dnsVars, ribVars, tunVars, bgpVars>>

\* peers.write().await, the insert and the return.
AddPeerInsert ==
    /\ \E t \in DOMAIN addTask :
         /\ addTask[t].pc = "insert"
         /\ peers' = MapInsert(peers, addTask[t].peer.peer_id, addTask[t].peer)
         /\ addTask' = [addTask EXCEPT ![t].pc = "done", ![t].result = Returned("Ok")]
         /\ nodeRet' = [fn |-> "add_peer", peer |-> addTask[t].peer, result |-> "Ok"]
    /\ UNCHANGED <<node, activeTunnels, opTask>>
    /\ UNCHANGED <<tierVars, dnsVars, ribVars, tunVars, bgpVars>>

\* Vx0Node::stop, under the write lock of the peer map.
Stop ==
    /\ node.state = "constructed"
    /\ peers' = stop(peers)
    /\ nodeRet' = [fn |-> "stop", result |-> "Ok",
                   disconnected |-> Cardinality({id \in DOMAIN peers :
                                                   peers[id].status # "Disconnected"})]
    /\ UNCHANGED <<node, activeTunnels, addTask, opTask>>
    /\ UNCHANGED <<tierVars, dnsVars, ribVars, tunVars, bgpVars>>

-----------------------------------------------------------------------------
(* Resolver: src/network/dns/mod.rs (Vx0DNS) and resolver.rs (Vx0Resolver). *)

Name_vx0_network == <<"v","x","0",".","n","e","t","w","o","r","k">>
Name_gateway_vx0 == <<"g","a","t","e","w","a","y",".","v","x","0">>
Name_ns1_vx0 == <<"n","s","1",".","v","x","0">>
Name_ns2_vx0 == <<"n","s","2",".","v","x","0">>
Name_node1_vx0 == <<"n","o","d","e","1",".","v","x","0">>
Name_node2_vx0 == <<"n","o","d","e","2",".","v","x","0">>
Name_a_vx0 == <<"a",".","v","x","0">>
Name_google_com == <<"g","o","o","g","l","e",".","c","o","m">>
Name_avx0 == <<"a","v","x","0">>
Name_x_vx0_network == <<"x",".","v","x","0",".","n","e","t","w","o","r","k">>
Name_a_vx0_com == <<"a",".","v","x","0",".","c","o","m">>

is_vx0_domain_NoDot(domain) ==
    ends_with(domain, <<"v","x","0">>) \/ domain = Name_vx0_network

\* domain.ends_with(".vx0") || domain == "vx0.network": the guard of
\* resolve_vx0_domain, register_service and Vx0Resolver::resolve.
is_vx0_domain(domain) ==
    ends_with(domain, <<".","v","x","0">>) \/ domain = Name_vx0_network

\* str::parse::<IpAddr>: the IPv4 form is tried first; the IPv6 form needs a
\* ":" and none of the record data of this model holds one.
ParseIpAddr(s) == ParseIpv4(s)

ARecord(name, data) == [name |-> name, record_type |-> "A", data |-> data, ttl |-> 300]

add_record_Replaces(recs, record) == MapInsert(recs, record.name, <<record>>)

\* Vx0DNS::add_record: records.entry(name).or_insert_with(Vec::new).push(record)
add_record(recs, record) ==
    LET old == IF record.name \in DOMAIN recs THEN recs[record.name] ELSE << >>
    IN  MapInsert(recs, record.name, Append(old, record))

\* Vx0DNS::new() / create_vx0_zone: the preseeded records.
Vx0DNS_new ==
    add_record(add_record(add_record(add_record(<< >>,
        ARecord(Name_gateway_vx0, <<"1","0",".","0",".","0",".","1">>)),
        ARecord(Name_ns1_vx0, <<"1","0",".","0",".","0",".","2">>)),
        ARecord(Name_ns2_vx0, <<"1","0",".","0",".","0",".","3">>)),
        ARecord(Name_vx0_network, <<"1","0",".","0",".","1",".","1">>))

\* Vx0DNS::query_distributed_dns
query_distributed_dns(domain) ==
    IF domain = Name_vx0_network THEN Some(<<10, 0, 1, 1>>) ELSE None

FirstParsableA_Latest(list) ==
    LET hits == {i \in 1..Len(list) :
                    list[i].record_type = "A" /\ ParseIpAddr(list[i].data) # None}
    IN  IF hits = {} THEN None
        ELSE ParseIpAddr(list[CHOOSE i \in hits : \A j \in hits : i >= j].data)

\* The first A record of the list whose data parses as an IP, if any.
FirstParsableA(list) ==
    LET hits == {i \in 1..Len(list) :
                    list[i].record_type = "A" /\ ParseIpAddr(list[i].data) # None}
    IN  IF hits = {} THEN None
        ELSE ParseIpAddr(list[CHOOSE i \in hits : \A j \in hits : i <= j].data)

\* Vx0DNS::resolve_vx0_domain: [ip, lookups], lookups being the stores consulted.
resolve_vx0_domain(recs, domain) ==
    IF ~is_vx0_domain(domain) THEN [ip |-> None, lookups |-> << >>]
    ELSE LET local == IF domain \in DOMAIN recs THEN FirstParsableA(recs[domain]) ELSE None
         IN  IF local # None
             THEN [ip |-> local, lookups |-> <<"records">>]
             ELSE [ip |-> query_distributed_dns(domain),
                   lookups |-> <<"records", "distributed_dns">>]

\* Vx0Resolver::query_vx0_network
query_vx0_network(domain) ==
    CASE domain = Name_vx0_network -> Some(<<10, 0, 1, 1>>)
      [] domain = Name_gateway_vx0 -> Some(<<10, 0, 0, 1>>)
      [] domain = Name_node1_vx0   -> Some(<<10, 0, 2, 1>>)
      [] domain = Name_node2_vx0   -> Some(<<10, 0, 2, 2>>)
      [] OTHER -> None

\* Vx0Resolver::resolve (always Ok(_)): [ip, lookups].
Vx0Resolver_resolve(recs, domain) ==
    IF is_vx0_domain(domain)
    THEN LET r == resolve_vx0_domain(recs, domain)
         IN  IF r.ip # None THEN r
             ELSE [ip |-> query_vx0_network(domain),
                   lookups |-> r.lookups \o <<"vx0_network">>]
    ELSE [ip |-> None, lookups |-> << >>]

\* Vx0DNS::register_service: <<result, records>>.
register_service(recs, domain, ip) ==
    IF ~is_vx0_domain(domain) THEN <<"InvalidDomain", recs>>
    ELSE <<"Ok", add_record(recs, ARecord(domain, Ipv4ToString(ip)))>>

create_vx0_network_record_AlwaysAdds(recs) ==
    <<"Ok", add_record(recs, ARecord(Name_vx0_network,
                                     <<"1","0",".","0",".","1",".","1">>))>>

\* Vx0DNSServer::create_vx0_network_record: <<result, records>>.  Nothing is
\* added when get_records("vx0.network") finds a list.
create_vx0_network_record(recs) ==
    IF Name_vx0_network \in DOMAIN recs THEN <<"Ok", recs>>
    ELSE <<"Ok", add_record(recs, ARecord(Name_vx0_network,
                                          <<"1","0",".","0",".","1",".","1">>))>>

(* Inputs.  MaxRegistrations bounds the records registered on top of the    *)
(* preseeded ones.                                                          *)
MaxRegistrations == 2

DnsNames == { Name_vx0_network, Name_gateway_vx0, Name_node1_vx0, Name_a_vx0,
              Name_google_com, Name_avx0, Name_x_vx0_network, Name_a_vx0_com }
DnsIps == { <<10, 0, 3, 1>>, <<192, 168, 0, 250>> }

RecordCount(recs) ==
    LET RECURSIVE Sum(_)
        Sum(S) == IF S = {} THEN 0
                  ELSE LET n == CHOOSE n \in S : TRUE IN Len(recs[n]) + Sum(S \ {n})
    IN  Sum(DOMAIN recs)

RegisterService ==
    /\ RecordCount(records) < RecordCount(Vx0DNS_new) + MaxRegistrations
    /\ \E domain \in DnsNames, ip \in DnsIps :
         LET r == register_service(records, domain, ip)
         IN  /\ records' = r[2]
             /\ dnsRet' = [fn |-> "register_service", domain |-> domain, ip |-> ip,
                           result |-> r[1]]
    /\ UNCHANGED <<tierVars, nodeVars, ribVars, tunVars, bgpVars>>

CreateVx0NetworkRecord ==
    /\ LET r == create_vx0_network_record(records)
       IN  /\ records' = r[2]
           /\ dnsRet' = [fn |-> "create_vx0_network_record", result |-> r[1]]
    /\ UNCHANGED <<tierVars, nodeVars, ribVars, tunVars, bgpVars>>

ResolveVx0Domain ==
    /\ \E domain \in DnsNames :
         dnsRet' = [fn |-> "resolve_vx0_domain", domain |-> domain,
                    result |-> resolve_vx0_domain(records, domain)]
    /\ UNCHANGED <<records, tierVars, nodeVars, ribVars, tunVars, bgpVars>>

Resolve ==
    /\ \E domain \in DnsNames :
         dnsRet' = [fn |-> "resolve", domain |-> domain,
                    result |-> Vx0Resolver_resolve(records, domain)]
    /\ UNCHANGED <<records, tierVars, nodeVars, ribVars, tunVars, bgpVars>>

-----------------------------------------------------------------------------
(* RIB: src/network/bgp/mod.rs (RouteTable, BGPDaemon::add_route) and       *)
(* routing.rs (RouteTable::find_best_route).                                *)

(* An address is [family, addr]: family 4 with four 8-bit groups or family  *)
(* 6 with eight 16-bit groups.  A prefix (IpNet) is [family, addr, len] and *)
(* keeps the host bits it was written with; two prefixes are equal when     *)
(* family, address and length are.                                         *)
GroupBits(family) == IF family = 4 THEN 8 ELSE 16

\* How many of the len prefix bits fall into group i.
PrefixBitsIn(i, len, bits) ==
    LET k == len - (i - 1) * bits
    IN  IF k <= 0 THEN 0 ELSE IF k >= bits THEN bits ELSE k

\* IpNet::network(): the address with its host bits cleared.
network_addr(net) ==
    LET bits == GroupBits(net.family)
    IN  [i \in DOMAIN net.addr |->
            LET host == 2 ^ (bits - PrefixBitsIn(i, net.len, bits))
            IN  (net.addr[i] \div host) * host]

\* IpNet::broadcast(): the address with its host bits set.
broadcast_addr(net) ==
    LET bits == GroupBits(net.family)
    IN  [i \in DOMAIN net.addr |->
            LET host == 2 ^ (bits - PrefixBitsIn(i, net.len, bits))
            IN  (net.addr[i] \div host) * host + (host - 1)]

\* Ord on addresses of one family: lexicographic on the groups.
AddrLeq(a, b) ==
    \/ a = b
    \/ \E i \in DOMAIN a : a[i] < b[i] /\ \A j \in 1..(i - 1) : a[j] = b[j]

\* IpNet::contains(&IpAddr): false across families.
contains(net, ip) ==
    /\ net.family = ip.family
    /\ AddrLeq(network_addr(net), ip.addr)
    /\ AddrLeq(ip.addr, broadcast_addr(net))

RouteTable_new == [routes |-> << >>, version |-> 0]

add_route_KeepFirst(table, route) ==
    [routes |-> IF route.network \in DOMAIN table.routes THEN table.routes
                ELSE MapInsert(table.routes, route.network, route),
     version |-> table.version + 1]

add_route_NoBumpOnReplace(table, route) ==
    [routes |-> MapInsert(table.routes, route.network, route),
     version |-> IF route.network \in DOMAIN table.routes THEN table.version
                 ELSE table.version + 1]

\* RouteTable::add_route
add_route(table, route) ==
    [routes |-> MapInsert(table.routes, route.network, route),
     version |-> table.version + 1]

\* RouteTable::remove_route: <<removed, table>>
remove_route(table, network) ==
    IF network \in DOMAIN table.routes
    THEN <<Some(table.routes[network]),
           [routes |-> MapRemove(table.routes, network), version |-> table.version + 1]>>
    ELSE <<None, table>>

\* RouteTable::get_route
get_route(table, network) ==
    IF network \in DOMAIN table.routes THEN Some(table.routes[network]) ELSE None

\* RouteTable::get_all_routes, as the set of entries.
get_all_routes(table) == {table.routes[n] : n \in DOMAIN table.routes}

\* The loop of find_best_route over the map's entries in iteration order.
RECURSIVE find_best_loop(_, _, _, _, _)
find_best_loop(routes, order, destination, best_route, best_prefix_len) ==
    IF order = << >> THEN best_route
    ELSE LET network == Head(order)
         IN  IF contains(network, destination) /\ network.len > best_prefix_len
             THEN find_best_loop(routes, Tail(order), destination,
                                 Some(routes[network]), network.len)
             ELSE find_best_loop(routes, Tail(order), destination,
                                 best_route, best_prefix_len)

RECURSIVE find_last_match_loop(_, _, _, _)
find_last_match_loop(routes, order, destination, best_route) ==
    IF order = << >> THEN best_route
    ELSE find_last_match_loop(routes, Tail(order), destination,
            IF contains(Head(order), destination) THEN Some(routes[Head(order)])
            ELSE best_route)

find_best_route_LastMatch(table, destination, order) ==
    find_last_match_loop(table.routes, order, destination, None)

\* RouteTable::find_best_route; order is the order in which the HashMap
\* yields its keys, which the code does not control.
find_best_route(table, destination, order) ==
    find_best_loop(table.routes, order, destination, None, 0)

\* The orders in which a HashMap with key set S may be iterated.
IterationOrders(S) ==
    {o \in [1..Cardinality(S) -> S] : \A i, j \in 1..Cardinality(S) : o[i] = o[j] => i = j}

\* The RouteEntry BGPDaemon::add_route builds.
DaemonRoute(local_asn, network, next_hop, origin) ==
    [network |-> network, next_hop |-> next_hop, as_path |-> <<local_asn>>,
     origin |-> origin, local_pref |-> 100, med |-> 0]

(* Inputs.  MaxRibVersion bounds the number of mutations, RibTasks is the   *)
(* number of tasks calling BGPDaemon::add_route concurrently (SpecRibDaemon);*)
(* with daemon tasks the prefixes and addresses are the narrow sets.        *)
MaxRibVersion == 3
RibTasks == 2

V4(a, b, c, d) == [family |-> 4, addr |-> <<a, b, c, d>>]
Net4(a, b, c, d, len) == [family |-> 4, addr |-> <<a, b, c, d>>, len |-> len]
V6Loopback == [family |-> 6, addr |-> <<0, 0, 0, 0, 0, 0, 0, 1>>]
Net6Default == [family |-> 6, addr |-> <<0, 0, 0, 0, 0, 0, 0, 0>>, len |-> 0]

DefaultNet == Net4(0, 0, 0, 0, 0)
NarrowPrefixes == {Net4(10, 0, 0, 0, 8), Net4(10, 1, 0, 0, 16)}
WidePrefixes == NarrowPrefixes \cup
    {DefaultNet, Net4(10, 1, 2, 3, 8), Net4(10, 1, 2, 0, 23), Net6Default}
NarrowAddrs == {V4(10, 1, 2, 3)}
WideAddrs == {V4(10, 1, 2, 3), V4(10, 2, 0, 1), V4(192, 168, 0, 1), V6Loopback}

HopA == V4(10, 0, 1, 1)
HopB == V4(10, 0, 1, 2)
LocalAsn == 65001

RibPrefixes == IF DOMAIN ribTask = {} THEN WidePrefixes ELSE NarrowPrefixes
RibAddrs == IF DOMAIN ribTask = {} THEN WideAddrs ELSE NarrowAddrs
RibEntries ==
    {[network |-> n, next_hop |-> h, as_path |-> <<65002, LocalAsn>>, origin |-> "EGP",
      local_pref |-> 100, med |-> 0] : n \in RibPrefixes, h \in {HopA, HopB}}

\* RouteTable::add_route on the table (by whoever holds its write lock).
AddRoute ==
    /\ ribLock = 0
    /\ rib.version < MaxRibVersion
    /\ \E e \in RibEntries :
         /\ rib' = add_route(rib, e)
         /\ ribRet' = [fn |-> "add_route", route |-> e, result |-> "Ok"]
    /\ ribWrites' = ribWrites + 1
    /\ UNCHANGED <<ribLock, ribTask, tierVars, nodeVars, dnsVars, tunVars, bgpVars>>

RemoveRoute ==
    /\ ribLock = 0
    /\ rib.version < MaxRibVersion
    /\ \E n \in RibPrefixes :
         LET r == remove_route(rib, n)
         IN  /\ rib' = r[2]
             /\ ribRet' = [fn |-> "remove_route", network |-> n, result |-> r[1]]
             /\ ribWrites' = IF r[1] # None THEN ribWrites + 1 ELSE ribWrites
    /\ UNCHANGED <<ribLock, ribTask, tierVars, nodeVars, dnsVars, tunVars, bgpVars>>

GetRoute ==
    /\ ribLock = 0
    /\ \E n \in RibPrefixes :
         ribRet' = [fn |-> "get_route", network |-> n, result |-> get_route(rib, n)]
    /\ UNCHANGED <<rib, ribWrites, ribLock, ribTask, tierVars, nodeVars, dnsVars, tunVars, bgpVars>>

FindBestRoute ==
    /\ ribLock = 0
    /\ \E ip \in RibAddrs, order \in IterationOrders(DOMAIN rib.routes) :
         ribRet' = [fn |-> "find_best_route", destination |-> ip,
                    result |-> find_best_route(rib, ip, order)]
    /\ UNCHANGED <<rib, ribWrites, ribLock, ribTask, tierVars, nodeVars, dnsVars, tunVars, bgpVars>>

\* BGPDaemon::get_routes: the read lock, then a copy of the entries.
GetRoutes ==
    /\ ribLock = 0
    /\ ribRet' = [fn |-> "get_routes", result |-> get_all_routes(rib)]
    /\ UNCHANGED <<rib, ribWrites, ribLock, ribTask, tierVars, nodeVars, dnsVars, tunVars, bgpVars>>

\* BGPDaemon::add_route, task t: the route is built, then the write lock awaited.
DaemonAddRouteCall(t) ==
    /\ ribTask[t].pc \in {"idle", "done"}
    /\ \E n \in RibPrefixes :
         ribTask' = [ribTask EXCEPT ![t] =
                        [pc |-> "lock", route |-> DaemonRoute(LocalAsn, n, HopA, "IGP")]]
    /\ UNCHANGED <<rib, ribWrites, ribLock, ribRet, tierVars, nodeVars, dnsVars, tunVars, bgpVars>>

\* route_table.write().await returns: t holds the lock.
DaemonAddRouteLock(t) ==
    /\ ribTask[t].pc = "lock"
    /\ ribLock = 0
    /\ rib.version < MaxRibVersion
    /\ ribLock' = t
    /\ ribTask' = [ribTask EXCEPT ![t].pc = "write"]
    /\ UNCHANGED <<rib, ribWrites, ribRet, tierVars, nodeVars, dnsVars, tunVars, bgpVars>>

\* table.add_route(route)?; Ok(()): the guard is dropped on return.
DaemonAddRouteWrite(t) ==
    /\ ribTask[t].pc = "write"
    /\ ribLock = t
    /\ rib' = add_route(rib, ribTask[t].route)
    /\ ribWrites' = ribWrites + 1
    /\ ribLock' = 0
    /\ ribTask' = [ribTask EXCEPT ![t].pc = "done"]
    /\ ribRet' = [fn |-> "daemon_add_route", route |-> ribTask[t].route, result |-> "Ok"]
    /\ UNCHANGED <<tierVars, nodeVars, dnsVars, tunVars, bgpVars>>

DaemonAddRoute == \E t \in DOMAIN ribTask :
    DaemonAddRouteCall(t) \/ DaemonAddRouteLock(t) \/ DaemonAddRouteWrite(t)

-----------------------------------------------------------------------------
(* Tunnel manager: src/network/ike/tunnels.rs; the IKE session it owns:     *)
(* src/network/ike/mod.rs and session.rs.  A tunnel is [status, ike_state,  *)
(* stats]; `tunnels` is the manager's map and tunLock the holder of its     *)
(* write lock across an await (0 when free).                                *)

Ok(v) == [ok |-> TRUE, val |-> v]
Err(msg) == [ok |-> FALSE, err |-> msg]

\* TrafficStats::new
TrafficStats_new == [bytes_in |-> 0, bytes_out |-> 0, packets_in |-> 0, packets_out |-> 0]

\* IKESession::is_established
is_established(ike_state) == ike_state = "Established"

\* IKESession::encrypt_payload: copies the plaintext.
encrypt_payload(ike_state, plaintext) ==
    IF ~is_established(ike_state) THEN Err("Session not established") ELSE Ok(plaintext)

\* IKESession::decrypt_payload: copies the ciphertext.
decrypt_payload(ike_state, ciphertext) ==
    IF ~is_established(ike_state) THEN Err("Session not established") ELSE Ok(ciphertext)

(* The IKE session of a tunnel: [state, trace], trace being the states the  *)
(* session was assigned, in order.  rng says where, if anywhere, the        *)
(* system random source fails.                                              *)
SetState(session, st) == [state |-> st, trace |-> Append(session.trace, st)]

\* IKESession::new
IKESession_new(rng) ==
    IF rng = "fails_in_new" THEN Err("RNG error")
    ELSE Ok([state |-> "Initial", trace |-> <<"Initial">>])

\* IKESession::perform_sa_init: <<result, session>>
perform_sa_init(session, rng) ==
    LET s1 == SetState(session, "SaInit")
    IN  IF rng = "fails_in_sa_init" THEN <<Err("Private key generation failed"), s1>>
        ELSE <<Ok(<<>>), s1>>

\* IKESession::create_auth_data: HMAC-SHA256 of the shared secret under psk.
create_auth_data(psk) == Ok(<<"hmac", psk>>)

\* IKESession::perform_auth: <<result, session>>.  The authentication data
\* goes into a message that is built and dropped; nothing of the peer's is
\* read or compared (peer_psk is the key the peer holds).
perform_auth(session, psk, peer_psk) ==
    LET s1 == SetState(session, "Auth")
        auth_data == create_auth_data(psk)
    IN  <<Ok(<<>>), s1>>

\* IKESession::establish_tunnel: <<result, session>>
establish_tunnel(session, psk, peer_psk, rng) ==
    LET init == perform_sa_init(session, rng)
    IN  IF ~init[1].ok THEN init
        ELSE LET auth == perform_auth(init[2], psk, peer_psk)
             IN  IF ~auth[1].ok THEN auth
                 ELSE <<Ok(<<>>), SetState(auth[2], "Established")>>

\* The IPSecTunnel create_tunnel inserts once establish_tunnel has returned.
IPSecTunnel_new(ike_session) ==
    [status |-> "Established", ike_state |-> ike_session.state, stats |-> TrafficStats_new]

send_packet_CountFirst(tuns, tunnel_id, packet) ==
    IF tunnel_id \in DOMAIN tuns
    THEN LET tunnel == tuns[tunnel_id]
             counted == [tuns EXCEPT ![tunnel_id].stats.bytes_out = @ + Len(packet),
                                     ![tunnel_id].stats.packets_out = @ + 1]
         IN  IF tunnel.status # "Established"
             THEN <<Err("Tunnel not established"), counted>>
             ELSE <<Ok(<<>>), counted>>
    ELSE <<Err("Tunnel not found"), tuns>>

\* TunnelManager::send_packet under the write lock: <<result, tunnels>>
send_packet(tuns, tunnel_id, packet) ==
    IF tunnel_id \in DOMAIN tuns
    THEN LET tunnel == tuns[tunnel_id]
         IN  IF tunnel.status # "Established"
             THEN <<Err("Tunnel not established"), tuns>>
             ELSE LET encrypted_packet == encrypt_payload(tunnel.ike_state, packet)
                  IN  IF ~encrypted_packet.ok THEN <<encrypted_packet, tuns>>
                      ELSE <<Ok(<<>>),
                             [tuns EXCEPT
                                ![tunnel_id].stats.bytes_out = @ + Len(encrypted_packet.val),
                                ![tunnel_id].stats.packets_out = @ + 1]>>
    ELSE <<Err("Tunnel not found"), tuns>>

receive_packet_CountsOut(tuns, tunnel_id, encrypted_packet) ==
    IF tunnel_id \in DOMAIN tuns /\ tuns[tunnel_id].status = "Established"
    THEN <<decrypt_payload(tuns[tunnel_id].ike_state, encrypted_packet),
           [tuns EXCEPT ![tunnel_id].stats.bytes_out = @ + Len(encrypted_packet),
                        ![tunnel_id].stats.packets_in = @ + 1]>>
    ELSE <<Err("Tunnel not found"), tuns>>

\* TunnelManager::receive_packet under the write lock: <<result, tunnels>>
receive_packet(tuns, tunnel_id, encrypted_packet) ==
    IF tunnel_id \in DOMAIN tuns
    THEN LET tunnel == tuns[tunnel_id]
         IN  IF tunnel.status # "Established"
             THEN <<Err("Tunnel not established"), tuns>>
             ELSE LET decrypted_packet == decrypt_payload(tunnel.ike_state, encrypted_packet)
                  IN  IF ~decrypted_packet.ok THEN <<decrypted_packet, tuns>>
                      ELSE <<decrypted_packet,
                             [tuns EXCEPT
                                ![tunnel_id].stats.bytes_in = @ + Len(encrypted_packet),
                                ![tunnel_id].stats.packets_in = @ + 1]>>
    ELSE <<Err("Tunnel not found"), tuns>>

close_tunnel_KeepsEntry(tuns, tunnel_id) ==
    IF tunnel_id \in DOMAIN tuns
    THEN <<Ok(<<>>), [tuns EXCEPT ![tunnel_id].ike_state = "Deleted",
                                  ![tunnel_id].status = "Closed"]>>
    ELSE <<Ok(<<>>), tuns>>

\* TunnelManager::close_tunnel under the write lock: <<result, tunnels>>.  The
\* entry is taken out of the map; closing its session (which cannot fail)
\* and marking it Closed act on the removed value only.
close_tunnel(tuns, tunnel_id) ==
    IF tunnel_id \in DOMAIN tuns
    THEN <<Ok(<<>>), MapRemove(tuns, tunnel_id)>>
    ELSE <<Ok(<<>>), tuns>>

(* Inputs.  A tunnel id is a fresh UUID: the ids are numbered in the order  *)
(* they are generated, TunnelIds in all, and never come back.               *)
(* The registered tunnels carry at most MaxPackets packets between them;    *)
(* packets are short byte strings, two of them one byte apart; Psks are the *)
(* pre-shared keys either side may hold.                                    *)
MaxPackets == 2
TunnelIds == {1, 2}
Packets == {<<>>, <<69, 0>>, <<69, 1>>}
Psks == {"psk-a", "psk-b"}
RngOutcomes == {"ok", "fails_in_new", "fails_in_sa_init"}
PacketCount(tunnel) == tunnel.stats.packets_in + tunnel.stats.packets_out
RECURSIVE PacketTotal(_)
PacketTotal(tuns) ==
    IF DOMAIN tuns = {} THEN 0
    ELSE LET id == CHOOSE i \in DOMAIN tuns : TRUE
         IN  PacketCount(tuns[id]) + PacketTotal(MapRemove(tuns, id))
CanCarry == PacketTotal(tunnels) < MaxPackets

NoHistory ==
    [sends |-> 0, send_bytes |-> 0, recvs |-> 0, recv_bytes |-> 0, wire |-> {},
     closed |-> FALSE]
\* What is remembered of a tunnel that was closed.
Closed == [NoHistory EXCEPT !.closed = TRUE]

\* TunnelManager::create_tunnel: the id is generated first, then the session
\* is created and established, and only then is the tunnel inserted.
CreateTunnel ==
    /\ tunLock = 0
    /\ tunIssued < Cardinality(TunnelIds)
    /\ tunIssued' = tunIssued + 1
    /\ \E psk \in Psks, peer_psk \in Psks, rng \in RngOutcomes :
         LET tunnel_id == tunIssued + 1
             created == IKESession_new(rng)
             call == [fn |-> "create_tunnel", tunnel_id |-> tunnel_id,
                      psk |-> psk, peer_psk |-> peer_psk]
         IN  IF ~created.ok
             THEN /\ tunRet' = call @@ [result |-> created, ike_session |-> None]
                  /\ UNCHANGED <<tunnels, tunHist>>
             ELSE LET est == establish_tunnel(created.val, psk, peer_psk, rng)
                  IN  IF ~est[1].ok
                      THEN /\ tunRet' = call @@ [result |-> est[1],
                                                 ike_session |-> Some(est[2])]
                           /\ UNCHANGED <<tunnels, tunHist>>
                      ELSE /\ tunnels' = MapInsert(tunnels, tunnel_id, IPSecTunnel_new(est[2]))
                           /\ tunHist' = MapInsert(tunHist, tunnel_id, NoHistory)
                           /\ tunRet' = call @@ [result |-> Ok(tunnel_id),
                                                 ike_session |-> Some(est[2])]
    /\ UNCHANGED <<tunLock, tierVars, nodeVars, dnsVars, ribVars, bgpVars>>

\* TunnelManager::close_tunnel
CloseTunnel ==
    /\ tunLock = 0
    /\ \E tunnel_id \in TunnelIds :
         LET r == close_tunnel(tunnels, tunnel_id)
         IN  /\ tunnels' = r[2]
             /\ tunHist' = IF tunnel_id \in DOMAIN tunnels
                           THEN [tunHist EXCEPT ![tunnel_id] = Closed] ELSE tunHist
             /\ tunRet' = [fn |-> "close_tunnel", tunnel_id |-> tunnel_id, result |-> r[1]]
    /\ UNCHANGED <<tunLock, tunIssued, tierVars, nodeVars, dnsVars, ribVars, bgpVars>>

\* TunnelManager::send_packet, from the moment it holds the write lock.  The
\* ciphertext it logs is what the session's encrypt_payload returned.
SendPacket ==
    /\ tunLock = 0
    /\ \E tunnel_id \in TunnelIds, packet \in Packets :
         /\ CanCarry \/ ~send_packet(tunnels, tunnel_id, packet)[1].ok
         /\ LET r == send_packet(tunnels, tunnel_id, packet)
                sealed == IF r[1].ok
                          THEN Some(encrypt_payload(tunnels[tunnel_id].ike_state, packet).val)
                          ELSE None
            IN  /\ tunnels' = r[2]
                /\ tunRet' = [fn |-> "send_packet", tunnel_id |-> tunnel_id,
                              packet |-> packet, result |-> r[1], sealed |-> sealed]
                /\ tunHist' = IF r[1].ok
                              THEN [tunHist EXCEPT
                                      ![tunnel_id].sends = @ + 1,
                                      ![tunnel_id].send_bytes = @ + Len(packet),
                                      ![tunnel_id].wire = @ \cup {sealed[1]}]
                              ELSE tunHist
    /\ UNCHANGED <<tunLock, tunIssued, tierVars, nodeVars, dnsVars, ribVars, bgpVars>>

\* TunnelManager::receive_packet, from the moment it holds the write lock.
ReceivePacket ==
    /\ tunLock = 0
    /\ \E tunnel_id \in TunnelIds, packet \in Packets :
         /\ CanCarry \/ ~receive_packet(tunnels, tunnel_id, packet)[1].ok
         /\ LET r == receive_packet(tunnels, tunnel_id, packet)
            IN  /\ tunnels' = r[2]
                /\ tunRet' = [fn |-> "receive_packet", tunnel_id |-> tunnel_id,
                              packet |-> packet, result |-> r[1]]
                /\ tunHist' = IF r[1].ok
                              THEN [tunHist EXCEPT
                                      ![tunnel_id].recvs = @ + 1,
                                      ![tunnel_id].recv_bytes = @ + Len(packet)]
                              ELSE tunHist
    /\ UNCHANGED <<tunLock, tunIssued, tierVars, nodeVars, dnsVars, ribVars, bgpVars>>

\* TunnelManager::rekey_tunnel up to the sleep inside IKESession::rekey: an
\* unknown id returns Ok at once, a session that is not established returns
\* the error with the status already set to Rekeying, otherwise the task
\* sleeps holding the write lock.
RekeyTunnel ==
    /\ tunLock = 0
    /\ \E tunnel_id \in TunnelIds :
         IF tunnel_id \notin DOMAIN tunnels
         THEN /\ tunRet' = [fn |-> "rekey_tunnel", tunnel_id |-> tunnel_id,
                            result |-> Ok(<<>>)]
              /\ UNCHANGED <<tunnels, tunLock>>
         ELSE IF ~is_established(tunnels[tunnel_id].ike_state)
         THEN /\ tunnels' = [tunnels EXCEPT ![tunnel_id].status = "Rekeying"]
              /\ tunRet' = [fn |-> "rekey_tunnel", tunnel_id |-> tunnel_id,
                            result |-> Err("Session not established")]
              /\ UNCHANGED tunLock
         ELSE /\ tunnels' = [tunnels EXCEPT ![tunnel_id].status = "Rekeying",
                                            ![tunnel_id].ike_state = "Rekeying"]
              /\ tunLock' = tunnel_id
              /\ tunRet' = [fn |-> "rekey_tunnel", tunnel_id |-> tunnel_id,
                            result |-> Pending]
    /\ UNCHANGED <<tunIssued, tunHist, tierVars, nodeVars, dnsVars, ribVars, bgpVars>>

\* The sleep ends: keys derived, session and tunnel Established, lock dropped.
RekeyComplete ==
    /\ tunLock # 0
    /\ tunnels' = [tunnels EXCEPT ![tunLock].status = "Established",
                                  ![tunLock].ike_state = "Established"]
    /\ tunHist' = [tunHist EXCEPT ![tunLock].wire = {}]
    /\ tunRet' = [fn |-> "rekey_tunnel", tunnel_id |-> tunLock, result |-> Ok(<<>>)]
    /\ tunLock' = 0
    /\ UNCHANGED <<tunIssued, tierVars, nodeVars, dnsVars, ribVars, bgpVars>>

\* The caller drops the rekey_tunnel future while it sleeps (a timeout or a
\* select around the call): the guard is released, the writes already made
\* stay.
RekeyDropped ==
    /\ tunLock # 0
    /\ tunRet' = [fn |-> "rekey_tunnel", tunnel_id |-> tunLock, result |-> Err("dropped")]
    /\ tunLock' = 0
    /\ UNCHANGED <<tunnels, tunIssued, tunHist, tierVars, nodeVars, dnsVars, ribVars, bgpVars>>

\* TunnelManager::cleanup_failed_tunnels
CleanupFailedTunnels ==
    /\ tunLock = 0
    /\ LET failed_tunnels == {id \in DOMAIN tunnels : tunnels[id].status = "Failed"}
       IN  /\ tunnels' = [id \in DOMAIN tunnels \ failed_tunnels |-> tunnels[id]]
           /\ tunHist' = [id \in DOMAIN tunHist |->
                             IF id \in failed_tunnels THEN Closed ELSE tunHist[id]]
    /\ tunRet' = [fn |-> "cleanup_failed_tunnels"]
    /\ UNCHANGED <<tunLock, tunIssued, tierVars, nodeVars, dnsVars, ribVars, bgpVars>>

\* TunnelManager::get_tunnel_stats
GetTunnelStats ==
    /\ tunLock = 0
    /\ \E tunnel_id \in TunnelIds :
         tunRet' = [fn |-> "get_tunnel_stats", tunnel_id |-> tunnel_id,
                    result |-> IF tunnel_id \in DOMAIN tunnels
                               THEN Some(tunnels[tunnel_id].stats) ELSE None]
    /\ UNCHANGED <<tunnels, tunLock, tunIssued, tunHist, tierVars, nodeVars, dnsVars, ribVars, bgpVars>>

-----------------------------------------------------------------------------
(* Peering sessions: src/network/bgp/mod.rs (BGPSession), session.rs and    *)
(* protocol.rs (BGPProtocol: the listener, the per-connection driver, the   *)
(* framing).                                                                *)

BgpErr(kind, msg) == [ok |-> FALSE, kind |-> kind, err |-> msg]

HoldTime == 90
KeepaliveTime == 30
MaxFrameLength == 65536

BGPMessageType == {"Open", "Update", "Keepalive", "Notification"}

(* What a read finds on the stream: the end of the stream, or a frame: a    *)
(* length prefix and what follows it: bytes that deserialize to a message   *)
(* of some type, bytes that do not ("malformed"), or fewer bytes than the   *)
(* prefix announced before the stream ends ("short").                       *)
FrameLengths == {2, MaxFrameLength, MaxFrameLength + 1, 2147483647}
PeerAsn == 65002

\* The BGPRoute values an Update carries: a path that already holds the
\* local ASN, the network's default route announced by the peer itself, and
\* a route learned by the peer from a third system.
BGPRoute(network, as_path) ==
    [network |-> network, next_hop |-> V4(10, 0, 1, 2), as_path |-> as_path,
     origin |-> "EGP", local_pref |-> 100, med |-> 0]
AdvertisedRoutes ==
    {BGPRoute(Net4(10, 1, 0, 0, 16), <<PeerAsn, LocalAsn>>),
     BGPRoute(Net4(10, 0, 0, 0, 8), <<PeerAsn>>),
     BGPRoute(Net4(10, 1, 0, 0, 16), <<PeerAsn, 65100>>)}
UpdateRoutes == {<<r>> : r \in AdvertisedRoutes}

StreamInputs ==
    {[kind |-> "eof"]} \cup
    {[kind |-> "frame", length |-> l, body |-> b, routes |-> << >>] :
        l \in FrameLengths, b \in BGPMessageType \cup {"malformed", "short"}} \cup
    {[kind |-> "frame", length |-> l, body |-> "Update", routes |-> rs] :
        l \in FrameLengths, rs \in UpdateRoutes}

receive_message_LimitOffByOne(input) ==
    IF input.kind = "eof"
    THEN [result |-> BgpErr("IO", "unexpected end of file"), payload_read |-> 0]
    ELSE IF input.length >= MaxFrameLength
    THEN [result |-> BgpErr("Protocol", "Message too large"), payload_read |-> 0]
    ELSE IF input.body = "short"
    THEN [result |-> BgpErr("IO", "unexpected end of file"), payload_read |-> input.length - 1]
    ELSE IF input.body = "malformed"
    THEN [result |-> BgpErr("Serialization", "invalid message"), payload_read |-> input.length]
    ELSE [result |-> Ok([message_type |-> input.body, asn |-> PeerAsn, routes |-> input.routes]),
          payload_read |-> input.length]

\* BGPProtocol::receive_message: [result, payload_read], payload_read being
\* the number of bytes taken from the stream after the length prefix.
receive_message(input) ==
    IF input.kind = "eof"
    THEN [result |-> BgpErr("IO", "unexpected end of file"), payload_read |-> 0]
    ELSE IF input.length > MaxFrameLength
    THEN [result |-> BgpErr("Protocol", "Message too large"), payload_read |-> 0]
    ELSE IF input.body = "short"
    THEN [result |-> BgpErr("IO", "unexpected end of file"), payload_read |-> input.length - 1]
    ELSE IF input.body = "malformed"
    THEN [result |-> BgpErr("Serialization", "invalid message"), payload_read |-> input.length]
    ELSE [result |-> Ok([message_type |-> input.body, asn |-> PeerAsn, routes |-> input.routes]),
          payload_read |-> input.length]

\* BGPProtocol::send_message: the write succeeds or the socket reports an error.
send_message(socket_ok) ==
    IF socket_ok THEN Ok(<<>>) ELSE BgpErr("IO", "broken pipe")

\* NodeTier::route_advertisement_policy
route_advertisement_policy(tier) ==
    CASE tier = "Backbone" -> "FullTable"
      [] tier = "Regional" -> "RegionalFilter"
      [] tier = "Edge" -> "DefaultOnly"

\* RoutingPolicy::should_accept_route of a node of tier node_tier.
should_accept_route(node_tier, route, peer_asn) ==
    LET peer_tier == RoutingPolicy_asn_to_tier(peer_asn)
        policy == route_advertisement_policy(node_tier)
        is_default_route ==
            route.network = Net4(0, 0, 0, 0, 0) \/ route.network = Net4(10, 0, 0, 0, 8)
        is_local_announcement == route.as_path = <<peer_asn>>
        apply_regional_filter ==
            CASE peer_tier = "Backbone" -> TRUE
              [] peer_tier = "Regional" -> Len(route.as_path) <= 3
              [] peer_tier = "Edge" -> route.network.len >= 24
    IN  CASE policy = "FullTable" -> TRUE
          [] policy = "RegionalFilter" -> apply_regional_filter
          [] policy = "DefaultOnly" -> is_default_route \/ is_local_announcement

RECURSIVE InstallAll(_, _, _)
InstallAll(table, routes, peer_asn) ==
    IF routes = << >> THEN table
    ELSE InstallAll(add_route(table, [Head(routes) EXCEPT !.as_path = <<peer_asn>> \o @]),
                    Tail(routes), peer_asn)

handle_bgp_message_InstallsAll(msg, peer_asn, table) ==
    [result |-> Ok(<<>>),
     table |-> IF msg.message_type = "Update"
               THEN InstallAll(table, msg.routes, peer_asn) ELSE table]

\* BGPProtocol::handle_bgp_message: [result, table].  Every message type is
\* logged, an Update with each of its routes; the route table is not reached.
handle_bgp_message(msg, peer_asn, table) == [result |-> Ok(<<>>), table |-> table]

\* BGPSession::new
BGPSession_new == [state |-> "Idle", trace |-> <<"Idle">>, pc |-> "idle"]

\* An assignment to BGPSession.state.
SessionState(session, st) ==
    [session EXCEPT !.state = st, !.trace = Append(session.trace, st)]

\* BGPProtocol::connect_to_peer: the TCP connect, the Open sent, the answer read.
connect_to_peer(connect_ok, socket_ok, input) ==
    IF ~connect_ok THEN BgpErr("IO", "connection refused")
    ELSE IF ~send_message(socket_ok).ok THEN send_message(socket_ok)
    ELSE LET response == receive_message(input).result
         IN  IF ~response.ok THEN response
             ELSE IF response.val.message_type = "Open" THEN Ok(BGPSession_new)
             ELSE BgpErr("Protocol", "Invalid BGP OPEN response")

(* Inputs.  MaxSessionSteps bounds the state changes of the session value   *)
(* followed; ConnIds number the connections the listener accepts.           *)
MaxSessionSteps == 8
ConnIds == {1, 2}

\* BGPProtocol::connect_to_peer, the caller keeping the session it returns.
ConnectToPeer ==
    /\ bgpSess.state = "none"
    /\ \E connect_ok \in BOOLEAN, socket_ok \in BOOLEAN, input \in StreamInputs :
         LET r == connect_to_peer(connect_ok, socket_ok, input)
         IN  /\ bgpSess' = IF r.ok THEN r.val ELSE bgpSess
             /\ bgpRet' = [fn |-> "connect_to_peer", input |-> input, result |-> r]
    /\ UNCHANGED <<bgpListener, bgpDrv, bgpStream, tierVars, nodeVars, dnsVars, ribVars, tunVars>>

\* BGPDaemon::handle_connection: a session value for an accepted connection.
HandleConnection ==
    /\ bgpSess.state = "none"
    /\ bgpSess' = BGPSession_new
    /\ bgpRet' = [fn |-> "handle_connection", result |-> Ok(<<>>)]
    /\ UNCHANGED <<bgpListener, bgpDrv, bgpStream, tierVars, nodeVars, dnsVars, ribVars, tunVars>>

\* BGPSession::establish up to its sleep.
Establish ==
    /\ bgpSess.state # "none"
    /\ bgpSess.pc = "idle"
    /\ Len(bgpSess.trace) < MaxSessionSteps
    /\ bgpSess' = [SessionState(bgpSess, "Connect") EXCEPT !.pc = "establishing"]
    /\ bgpRet' = [fn |-> "establish", result |-> Pending]
    /\ UNCHANGED <<bgpListener, bgpDrv, bgpStream, tierVars, nodeVars, dnsVars, ribVars, tunVars>>

\* BGPSession::establish after its sleep.
EstablishComplete ==
    /\ bgpSess.state # "none"
    /\ bgpSess.pc = "establishing"
    /\ bgpSess' = [SessionState(bgpSess, "Established") EXCEPT !.pc = "idle"]
    /\ bgpRet' = [fn |-> "establish", result |-> Ok(<<>>)]
    /\ UNCHANGED <<bgpListener, bgpDrv, bgpStream, tierVars, nodeVars, dnsVars, ribVars, tunVars>>

\* BGPSession::close
SessionClose ==
    /\ bgpSess.state # "none"
    /\ bgpSess.pc = "idle"
    /\ Len(bgpSess.trace) < MaxSessionSteps
    /\ bgpSess' = SessionState(bgpSess, "Idle")
    /\ bgpRet' = [fn |-> "close", result |-> Ok(<<>>)]
    /\ UNCHANGED <<bgpListener, bgpDrv, bgpStream, tierVars, nodeVars, dnsVars, ribVars, tunVars>>

\* BGPSession::start_keepalive: the task it spawns only logs.
start_keepalive(session) ==
    IF session.state # "Established"
    THEN BgpErr("Protocol", "Session not established")
    ELSE Ok(<<>>)

send_update_Unguarded(session) == Ok(<<>>)

\* BGPSession::send_update
send_update(session) ==
    IF session.state # "Established"
    THEN BgpErr("Protocol", "Session not established")
    ELSE Ok(<<>>)

\* BGPSession::start_keepalive on the session (&self: the session is not
\* inside establish).
StartKeepalive ==
    /\ bgpSess.state # "none"
    /\ bgpSess.pc = "idle"
    /\ bgpRet' = [fn |-> "start_keepalive", result |-> start_keepalive(bgpSess)]
    /\ UNCHANGED <<bgpSess, bgpListener, bgpDrv, bgpStream, tierVars, nodeVars, dnsVars, ribVars, tunVars>>

\* BGPSession::send_update on the session.
SendUpdate ==
    /\ bgpSess.state # "none"
    /\ bgpSess.pc = "idle"
    /\ bgpRet' = [fn |-> "send_update", result |-> send_update(bgpSess)]
    /\ UNCHANGED <<bgpSess, bgpListener, bgpDrv, bgpStream, tierVars, nodeVars, dnsVars, ribVars, tunVars>>

(* The listener and its drivers.  A driver is [pc, silent, keepalives,      *)
(* exit]: pc is "open" while handle_bgp_connection awaits the first         *)
(* message, "loop" inside keepalive_loop and "exited" once the task has     *)
(* returned; silent counts the keepalive periods since the peer was last    *)
(* heard (it stops counting one past the hold time), keepalives the         *)
(* keepalives sent, modulo 2.                                               *)
HoldPeriods == HoldTime \div KeepaliveTime

NewDriver == [pc |-> "open", silent |-> 0, keepalives |-> 0, exit |-> Pending]

Exited(d, result) == [d EXCEPT !.pc = "exited", !.exit = Returned(result)]

on_driver_error_StopsListener(listener, result) ==
    IF result.ok THEN listener ELSE "stopped"

\* What the accept loop is left as when a driver task returns: the spawned
\* task logs an Err and ends; the loop is not told.
on_driver_error(listener, result) == listener

\* handle_bgp_connection up to keepalive_loop: <<driver, delivered>>
handle_bgp_connection(d, input, socket_ok) ==
    LET open_msg == receive_message(input).result
    IN  IF ~open_msg.ok THEN Exited(d, open_msg)
        ELSE IF open_msg.val.message_type # "Open"
        THEN Exited(d, BgpErr("Protocol", "Expected BGP OPEN message"))
        ELSE IF ~send_message(socket_ok).ok THEN Exited(d, send_message(socket_ok))
        ELSE [d EXCEPT !.pc = "loop"]

\* keepalive_loop, the interval branch: a failed send breaks the loop, which
\* returns Ok.
keepalive_tick(d, socket_ok) ==
    IF ~send_message(socket_ok).ok THEN Exited(d, Ok(<<>>))
    ELSE [d EXCEPT !.keepalives = (@ + 1) % 2,
                   !.silent = IF @ <= HoldPeriods THEN @ + 1 ELSE @]

\* keepalive_loop, the receive branch: [driver, delivered, table].  A message
\* goes to handle_bgp_message; an error breaks the loop, which returns Ok.
keepalive_receive(d, input, table) ==
    LET result == receive_message(input).result
        handled == handle_bgp_message(result.val, PeerAsn, table)
    IN  IF result.ok
        THEN [driver |-> IF handled.result.ok
                         THEN [d EXCEPT !.silent = 0]
                         ELSE Exited(d, handled.result),
              delivered |-> Some(result.val),
              table |-> handled.table]
        ELSE [driver |-> Exited(d, Ok(<<>>)), delivered |-> None, table |-> table]

\* listener.accept() returns a connection: its driver is spawned.
Accept ==
    /\ bgpListener = "accepting"
    /\ \E c \in ConnIds :
         /\ c \notin DOMAIN bgpDrv
         /\ \A b \in ConnIds : b < c => b \in DOMAIN bgpDrv
         /\ bgpDrv' = MapInsert(bgpDrv, c, NewDriver)
         /\ bgpRet' = [fn |-> "accept", conn |-> c, result |-> Ok(<<>>)]
    /\ UNCHANGED <<bgpSess, bgpListener, bgpStream, tierVars, nodeVars, dnsVars, ribVars, tunVars>>

\* listener.accept() returns an error: it is logged and the loop goes on.
AcceptError ==
    /\ bgpListener = "accepting"
    /\ bgpRet' = [fn |-> "accept", conn |-> 0, result |-> BgpErr("IO", "accept failed")]
    /\ UNCHANGED <<bgpSess, bgpListener, bgpDrv, bgpStream, tierVars, nodeVars, dnsVars, ribVars, tunVars>>

\* handle_bgp_connection reads the first message of connection c.
DriverOpen ==
    \E c \in DOMAIN bgpDrv, input \in StreamInputs, socket_ok \in BOOLEAN :
       /\ bgpDrv[c].pc = "open"
       /\ LET d == handle_bgp_connection(bgpDrv[c], input, socket_ok)
              r == receive_message(input)
          IN  /\ bgpDrv' = [bgpDrv EXCEPT ![c] = d]
              /\ bgpListener' = IF d.pc = "exited"
                                THEN on_driver_error(bgpListener, d.exit.val)
                                ELSE bgpListener
              /\ bgpRet' = [fn |-> "handle_bgp_connection", conn |-> c, input |-> input,
                            result |-> r.result, payload_read |-> r.payload_read,
                            delivered |-> None]
       /\ UNCHANGED <<bgpSess, bgpStream, tierVars, nodeVars, dnsVars, ribVars, tunVars>>

\* keepalive_loop of connection c: the interval fires.
LoopTick ==
    \E c \in DOMAIN bgpDrv, socket_ok \in BOOLEAN :
       /\ bgpDrv[c].pc = "loop"
       /\ LET d == keepalive_tick(bgpDrv[c], socket_ok)
          IN  /\ bgpDrv' = [bgpDrv EXCEPT ![c] = d]
              /\ bgpListener' = IF d.pc = "exited"
                                THEN on_driver_error(bgpListener, d.exit.val)
                                ELSE bgpListener
              /\ bgpRet' = [fn |-> "keepalive_tick", conn |-> c,
                            result |-> send_message(socket_ok)]
       /\ UNCHANGED <<bgpSess, bgpStream, tierVars, nodeVars, dnsVars, ribVars, tunVars>>

\* keepalive_loop of connection c: receive_message completes.
LoopReceive ==
    \E c \in DOMAIN bgpDrv, input \in StreamInputs :
       /\ bgpDrv[c].pc = "loop"
       /\ LET k == keepalive_receive(bgpDrv[c], input, rib)
              r == receive_message(input)
          IN  /\ bgpDrv' = [bgpDrv EXCEPT ![c] = k.driver]
              /\ rib' = k.table
              /\ bgpListener' = IF k.driver.pc = "exited"
                                THEN on_driver_error(bgpListener, k.driver.exit.val)
                                ELSE bgpListener
              /\ bgpRet' = [fn |-> "keepalive_receive", conn |-> c, input |-> input,
                            result |-> r.result, payload_read |-> r.payload_read,
                            delivered |-> k.delivered]
       /\ UNCHANGED <<bgpSess, bgpStream, tierVars, nodeVars, dnsVars, tunVars,
                    ribLock, ribTask, ribRet, ribWrites>>

-----------------------------------------------------------------------------
(* Joining: src/node/joining.rs (NetworkJoiner) with the calls it makes     *)
(* into BGPProtocol, TunnelManager and Vx0Node.                             *)

(* An entry point is a BootstrapNode [asn, outcome], outcome being what     *)
(* contacting it leads to: "silent" (the connectivity probe times out),     *)
(* "connects", "bgp_fails" (it answers the Open with another message) or    *)
(* "ike_fails" (the tunnel's key generation fails).                         *)
OpenAnswer(entry) ==
    [kind |-> "frame", length |-> 2, routes |-> << >>,
     body |-> IF entry.outcome = "bgp_fails" THEN "Keepalive" ELSE "Open"]

\* NetworkJoiner::test_connectivity: the connect attempt ends within 5 s.
test_connectivity(entry) == entry.outcome # "silent"

RECURSIVE Filter(_, _, _)
Filter(tier, entry_points, suitable_peers) ==
    IF entry_points = << >> THEN suitable_peers
    ELSE LET entry_point == Head(entry_points)
             peer_tier == NetworkJoiner_asn_to_tier(entry_point.asn)
         IN  Filter(tier, Tail(entry_points),
                    IF can_peer_with(tier, peer_tier) /\ test_connectivity(entry_point)
                    THEN Append(suitable_peers, entry_point)
                    ELSE suitable_peers)

\* NetworkJoiner::find_suitable_peers
find_suitable_peers(tier, entry_points) ==
    LET suitable_peers == Filter(tier, entry_points, << >>)
    IN  IF suitable_peers = << >> THEN [ok |-> FALSE, err |-> "NetworkError"]
        ELSE Ok(suitable_peers)

\* NetworkJoiner::attempt_network_join with request_join: the first peer
\* asked accepts, and its answer names that peer alone.
attempt_network_join(suitable_peers) ==
    IF suitable_peers = << >>
    THEN [accepted |-> TRUE, bootstrap_peers |-> suitable_peers]
    ELSE [accepted |-> TRUE, bootstrap_peers |-> <<Head(suitable_peers)>>]

\* The uuid::Uuid::new_v4() establish_connection passes to
\* create_secure_tunnel as "temporary peer ID": a fresh value, unequal to the
\* second new_v4() that becomes the peer's id in the peer map (those are the
\* positive numbers).
TemporaryPeerId(n) == 0 - n

(* The node's collections inside a join: st = [peers, active_tunnels,       *)
(* tunnels, hist, issued].                                                  *)
\* NetworkJoiner::establish_connection: [result, st]
establish_connection(tier, st, peer) ==
    LET bgp_session == connect_to_peer(TRUE, TRUE, OpenAnswer(peer))
        rng == IF peer.outcome = "ike_fails" THEN "fails_in_sa_init" ELSE "ok"
        tunnel_id == st.issued + 1
        created == IKESession_new(rng)
        est == establish_tunnel(created.val, "psk-a", "psk-a", rng)
        tried == [st EXCEPT !.issued = tunnel_id]
        tunnelled == [tried EXCEPT
                        !.tunnels = MapInsert(@, tunnel_id, IPSecTunnel_new(est[2])),
                        !.hist = MapInsert(@, tunnel_id, NoHistory),
                        !.active_tunnels = MapInsert(@, TemporaryPeerId(tunnel_id),
                                                     tunnel_id)]
        peer_connection == PeerConnection_new(Cardinality(DOMAIN st.peers) + 1, peer.asn)
        admitted == add_peer_admit(tier, get_peer_count(st.peers), peer_connection)
    IN  IF ~bgp_session.ok THEN [result |-> "BGPError", st |-> st]
        ELSE IF ~created.ok \/ ~est[1].ok THEN [result |-> "IKEError", st |-> tried]
        ELSE IF admitted # "Ok" THEN [result |-> admitted, st |-> tunnelled]
        ELSE [result |-> "Ok",
              st |-> [tunnelled EXCEPT
                        !.peers = MapInsert(@, peer_connection.peer_id, peer_connection)]]

target_connections_Uncapped(n) == n

\* std::cmp::min(3, response.bootstrap_peers.len())
target_connections(n) == IF n < 3 THEN n ELSE 3

\* The for loop of establish_initial_connections: [st, connected_count,
\* attempts, last], attempts being the candidates tried and last the result
\* of the latest establish_connection.
RECURSIVE connect_loop(_, _, _, _, _)
connect_loop(tier, acc, rest, target_count, last) ==
    IF rest = << >> \/ acc.connected_count >= target_count
    THEN acc @@ [last |-> last]
    ELSE LET r == establish_connection(tier, acc.st, Head(rest))
         IN  connect_loop(tier,
                          [st |-> r.st,
                           connected_count |-> IF r.result = "Ok"
                                               THEN acc.connected_count + 1
                                               ELSE acc.connected_count,
                           attempts |-> acc.attempts + 1],
                          Tail(rest), target_count, r.result)

\* NetworkJoiner::establish_initial_connections: [result, st, ...]
establish_initial_connections(tier, st, bootstrap_peers) ==
    LET looped == connect_loop(tier, [st |-> st, connected_count |-> 0, attempts |-> 0],
                               bootstrap_peers,
                               target_connections(Len(bootstrap_peers)), "none")
    IN  looped @@ [result |-> IF looped.connected_count = 0
                              THEN "NetworkError" ELSE "Ok"]

\* NetworkJoiner::join_network from find_suitable_peers on (the node's ASN
\* is in its tier's range, so auto_assign_asn keeps it).
join_network(tier, st, entry_points) ==
    LET suitable == find_suitable_peers(tier, entry_points)
        response == attempt_network_join(suitable.val)
    IN  IF ~suitable.ok
        THEN [result |-> "NetworkError", st |-> st, connected_count |-> 0,
              attempts |-> 0, last |-> "none", bootstrap_peers |-> << >>]
        ELSE establish_initial_connections(tier, st, response.bootstrap_peers)
                @@ [bootstrap_peers |-> response.bootstrap_peers]

(* Inputs: the entry points discovered (up to three) and, for               *)
(* establish_initial_connections on its own, a JoinResponse naming up to    *)
(* four peers that survived find_suitable_peers.                            *)
EntryAsns == {65001, 65101, 66002}
EntryPoints == [asn : EntryAsns, outcome : {"silent", "connects", "bgp_fails", "ike_fails"}]
Survivors(tier) ==
    {e \in EntryPoints : Filter(tier, <<e>>, << >>) # << >>}
SeqsUpTo(S, n) == UNION {[1..k -> S] : k \in 0..n}

JoinState == [peers |-> peers, active_tunnels |-> activeTunnels, tunnels |-> tunnels,
              hist |-> tunHist, issued |-> tunIssued]

JoinApplied(fn, j, bootstrap_peers) ==
    /\ peers' = j.st.peers
    /\ activeTunnels' = j.st.active_tunnels
    /\ tunnels' = j.st.tunnels
    /\ tunHist' = j.st.hist
    /\ tunIssued' = j.st.issued
    /\ nodeRet' = [fn |-> fn, bootstrap_peers |-> bootstrap_peers, result |-> j.result,
                   connected_count |-> j.connected_count, attempts |-> j.attempts,
                   last |-> j.last, added |-> DOMAIN j.st.peers \ DOMAIN peers]
    /\ UNCHANGED <<node, addTask, opTask, tunLock, tunRet, tierVars, dnsVars, ribVars, bgpVars>>

\* NetworkJoiner::join_network on the entry points discovered.
JoinNetwork ==
    /\ node.state = "constructed"
    /\ nodeRet = NoCall
    /\ \E entry_points \in SeqsUpTo(EntryPoints, 3) :
         LET j == join_network(node.tier, JoinState, entry_points)
         IN  JoinApplied("join_network", j, j.bootstrap_peers)

\* NetworkJoiner::establish_initial_connections on a JoinResponse.
EstablishInitialConnections ==
    /\ node.state = "constructed"
    /\ nodeRet = NoCall
    /\ \E bootstrap_peers \in SeqsUpTo(Survivors(node.tier), 4) :
         LET j == establish_initial_connections(node.tier, JoinState, bootstrap_peers)
         IN  JoinApplied("establish_initial_connections", j, bootstrap_peers)

-----------------------------------------------------------------------------
(* keepalive_loop over the bytes of one stream.  The peer's send_message   *)
(* writes each frame as a length prefix followed by its payload, and the   *)
(* transport hands the bytes over in pieces: the prefix, then the payload  *)
(* in PayloadParts pieces of at least four bytes each.  receive_message is *)
(* a future that select! creates anew in every iteration and drops when    *)
(* the interval branch completes first; what read_u32 and read_exact have  *)
(* taken from the socket by then is gone with it.                          *)
MaxStreamFrames == 2
PayloadParts == {1, 2}
StreamMessageTypes == {"Update", "Keepalive"}

FramePieces == 1 + Cardinality(PayloadParts)

\* The k-th piece the peer's send_message calls put on the stream.
StreamPiece(k) ==
    LET f == ((k - 1) \div FramePieces) + 1
        i == (k - 1) % FramePieces
    IN  IF i = 0 THEN [kind |-> "len", frame |-> f]
                 ELSE [kind |-> "payload", frame |-> f, part |-> i]

\* One receive_message future polled until it is pending or ready:
\* [buf, recv, result, misread].  read_u32 takes the next four bytes whatever
\* they are; a payload is compact JSON, every byte of it is at least 0x20, so
\* four of them read as a length exceed MaxFrameLength.
RECURSIVE poll_receive(_, _)
poll_receive(buf, recv) ==
    IF buf = << >>
    THEN [buf |-> buf, recv |-> recv, result |-> Pending, misread |-> FALSE]
    ELSE IF recv.pc = "len"
    THEN IF Head(buf).kind = "len"
         THEN poll_receive(Tail(buf),
                           [pc |-> "payload", frame |-> Head(buf).frame, got |-> 0])
         ELSE [buf |-> Tail(buf), recv |-> [pc |-> "len"],
               result |-> Returned(BgpErr("Protocol", "Message too large")),
               misread |-> TRUE]
    ELSE IF recv.got + 1 = Cardinality(PayloadParts)
         THEN [buf |-> Tail(buf), recv |-> [pc |-> "len"],
               result |-> Returned(Ok(recv.frame)), misread |-> FALSE]
         ELSE poll_receive(Tail(buf), [recv EXCEPT !.got = @ + 1])

\* The next piece of the peer's frames arrives in the socket buffer.
StreamArrive ==
    /\ bgpStream.phase = "loop"
    /\ bgpStream.arrived < MaxStreamFrames * FramePieces
    /\ bgpStream' = [bgpStream EXCEPT !.arrived = @ + 1,
                                      !.buf = Append(@, StreamPiece(bgpStream.arrived + 1))]
    /\ UNCHANGED <<bgpSess, bgpListener, bgpDrv, bgpRet>>
    /\ UNCHANGED <<tierVars, nodeVars, dnsVars, ribVars, tunVars>>

\* keepalive_loop, the receive branch: the future is polled with bytes to
\* read.  Ready with a message: handle_bgp_message, next iteration.  Ready
\* with an error: break.  Pending: it keeps what it has read so far.
StreamReceive ==
    /\ bgpStream.phase = "loop"
    /\ bgpStream.buf # << >>
    /\ LET p == poll_receive(bgpStream.buf, bgpStream.recv)
           msg == [message_type |-> bgpStream.frames[p.result.val.val],
                   asn |-> PeerAsn, routes |-> << >>]
       IN  IF ~p.result.done
           THEN /\ bgpStream' = [bgpStream EXCEPT !.buf = p.buf, !.recv = p.recv]
                /\ UNCHANGED rib
           ELSE IF p.result.val.ok
           THEN /\ bgpStream' = [bgpStream EXCEPT
                      !.buf = p.buf, !.recv = p.recv,
                      !.delivered = Append(@, [frame |-> p.result.val.val,
                                               message_type |-> msg.message_type])]
                /\ rib' = handle_bgp_message(msg, PeerAsn, rib).table
           ELSE /\ bgpStream' = [bgpStream EXCEPT
                      !.buf = p.buf, !.recv = p.recv, !.misread = p.misread,
                      !.phase = "exited", !.exit = Returned(p.result.val)]
                /\ UNCHANGED rib
    /\ UNCHANGED <<ribLock, ribTask, ribRet, ribWrites>>
    /\ UNCHANGED <<bgpSess, bgpListener, bgpDrv, bgpRet>>
    /\ UNCHANGED <<tierVars, nodeVars, dnsVars, tunVars>>

\* keepalive_loop, the interval branch completes first: the receive future of
\* this iteration is dropped with the length and payload bytes it holds, a
\* keepalive is sent, and the next iteration starts a new receive_message.
StreamTick ==
    /\ bgpStream.phase = "loop"
    /\ \E socket_ok \in BOOLEAN :
         bgpStream' = [bgpStream EXCEPT
             !.recv = [pc |-> "len"],
             !.lost = @ + (IF bgpStream.recv.pc = "payload"
                           THEN 1 + bgpStream.recv.got ELSE 0),
             !.phase = IF send_message(socket_ok).ok THEN @ ELSE "exited",
             !.exit = IF send_message(socket_ok).ok THEN @
                      ELSE Returned(send_message(socket_ok))]
    /\ UNCHANGED <<bgpSess, bgpListener, bgpDrv, bgpRet>>
    /\ UNCHANGED <<tierVars, nodeVars, dnsVars, ribVars, tunVars>>

-----------------------------------------------------------------------------
(* The node's tunnel operations, src/node/mod.rs, and the tunnel manager's *)
(* they call, step by step, for tasks that share one Vx0Node.  The two     *)
(* tokio RwLocks involved are Vx0Node.active_tunnels and                   *)
(* TunnelManager.tunnels.  opTask[t] is [op, pc, peer_id, tunnel_id, held,  *)
(* acquired, todo, result]: held is the sequence of guards the task keeps   *)
(* between two steps, acquired what it has locked during the operation,     *)
(* each with the locks it held at that moment.  A step that locks, acts and *)
(* unlocks without an await in between is one step.                         *)
OpTasks == {1, 2}
TunnelPeers == {1, 2}
MapLock == "active_tunnels"
RegistryLock == "tunnels"

Guard(lock, mode) == [lock |-> lock, mode |-> mode]
HeldLocks(task) == {task.held[i].lock : i \in DOMAIN task.held}
Running == {t \in DOMAIN opTask : opTask[t].pc # "done"}

\* RwLock::read resolves when no other task holds the write guard.
CanRead(lock, t) ==
    \A u \in Running \ {t} :
       \A i \in DOMAIN opTask[u].held : opTask[u].held[i] # Guard(lock, "write")

\* RwLock::write resolves when no other task holds any guard.
CanWrite(lock, t) ==
    \A u \in Running \ {t} : lock \notin HeldLocks(opTask[u])

\* The task takes a guard: it is remembered with the locks held just then.
Locked(task, lock, mode) ==
    [task EXCEPT !.acquired = @ \cup {[lock |-> lock, mode |-> mode,
                                       holding |-> HeldLocks(task)]}]
Keeping(task, lock, mode) ==
    [Locked(task, lock, mode) EXCEPT !.held = Append(@, Guard(lock, mode))]
Completed(task, result) ==
    [task EXCEPT !.pc = "done", !.peer_id = 0, !.tunnel_id = 0, !.held = << >>,
                 !.todo = {}, !.result = Returned(result)]

\* Vx0Node::send_secure_data as far as its result: the tunnel recorded for
\* peer_id carries the data, and a peer without one is an IKE error.
send_secure_data(active_tunnels, tuns, peer_id, data) ==
    IF peer_id \in DOMAIN active_tunnels
    THEN IF send_packet(tuns, active_tunnels[peer_id], data)[1].ok THEN "Ok" ELSE "IKEError"
    ELSE "IKEError"

create_tunnel_returns_KeepsGuard(task) ==
    [Keeping(task, RegistryLock, "write") EXCEPT !.pc = "record"]

\* TunnelManager::create_tunnel returns the id: its write guard on the
\* registry is dropped there, before create_secure_tunnel goes on.
create_tunnel_returns(task) ==
    [Locked(task, RegistryLock, "write") EXCEPT !.pc = "record"]

\* The calls a task may make.
OpCalls ==
    {[op |-> o, peer_id |-> p, tunnel_id |-> 0] :
        o \in {"create_secure_tunnel", "send_secure_data", "close_tunnel"},
        p \in TunnelPeers} \cup
    {[op |-> "rekey_tunnel", peer_id |-> 0, tunnel_id |-> id] : id \in TunnelIds} \cup
    {[op |-> o, peer_id |-> 0, tunnel_id |-> 0] :
        o \in {"tunnel_health_check", "cleanup_failed_tunnels"}}

SendsInFlight ==
    Cardinality({t \in Running : opTask[t].op = "send_secure_data"})

\* A task calls an operation.  create_tunnel generates the tunnel's id first.
OpCall(t) ==
    /\ node.state = "constructed"
    /\ t \notin Running
    /\ \E call \in OpCalls :
         /\ call.op = "create_secure_tunnel" => tunIssued < Cardinality(TunnelIds)
         /\ call.op = "send_secure_data" =>
               PacketTotal(tunnels) + SendsInFlight < MaxPackets
         /\ tunIssued' = IF call.op = "create_secure_tunnel" THEN tunIssued + 1
                         ELSE tunIssued
         /\ opTask' = MapInsert(opTask, t,
               [op |-> call.op, pc |-> "call", peer_id |-> call.peer_id,
                tunnel_id |-> IF call.op = "create_secure_tunnel" THEN tunIssued + 1
                              ELSE call.tunnel_id,
                held |-> << >>, acquired |-> {}, todo |-> {}, result |-> Pending])
    /\ UNCHANGED <<tunnels, tunLock, tunRet, tunHist, activeTunnels>>
    /\ UNCHANGED <<node, nodeRet, peers, addTask>>
    /\ UNCHANGED <<tierVars, dnsVars, ribVars, bgpVars>>

\* create_secure_tunnel, the call of TunnelManager::create_tunnel: the session
\* is established with no lock held, then the tunnel is inserted under the
\* registry's write lock; an error returns from create_secure_tunnel.
CreateTunnelInsert(t) ==
    /\ t \in Running
    /\ opTask[t].op = "create_secure_tunnel" /\ opTask[t].pc = "call"
    /\ \E rng \in RngOutcomes :
         LET created == IKESession_new(rng)
             est == establish_tunnel(created.val, "psk-a", "psk-a", rng)
         IN  IF ~created.ok \/ ~est[1].ok
             THEN /\ opTask' = [opTask EXCEPT ![t] = Completed(@, "IKEError")]
                  /\ UNCHANGED tunnels
             ELSE /\ CanWrite(RegistryLock, t)
                  /\ tunnels' = MapInsert(tunnels, opTask[t].tunnel_id,
                                          IPSecTunnel_new(est[2]))
                  /\ opTask' = [opTask EXCEPT ![t] = create_tunnel_returns(@)]
    /\ UNCHANGED <<tunLock, tunRet, tunIssued, tunHist, activeTunnels>>
    /\ UNCHANGED <<node, nodeRet, peers, addTask>>
    /\ UNCHANGED <<tierVars, dnsVars, ribVars, bgpVars>>

\* create_secure_tunnel: peer_id -> tunnel_id goes into active_tunnels.
CreateTunnelRecord(t) ==
    /\ t \in Running
    /\ opTask[t].op = "create_secure_tunnel" /\ opTask[t].pc = "record"
    /\ CanWrite(MapLock, t)
    /\ activeTunnels' = MapInsert(activeTunnels, opTask[t].peer_id, opTask[t].tunnel_id)
    /\ opTask' = [opTask EXCEPT ![t] = Completed(Locked(@, MapLock, "write"), "Ok")]
    /\ UNCHANGED tunVars
    /\ UNCHANGED <<node, nodeRet, peers, addTask>>
    /\ UNCHANGED <<tierVars, dnsVars, ribVars, bgpVars>>

\* send_secure_data: active_tunnels.read().await and the lookup.  The read
\* guard lives to the end of the function.
SendLookup(t) ==
    /\ t \in Running
    /\ opTask[t].op = "send_secure_data" /\ opTask[t].pc = "call"
    /\ CanRead(MapLock, t)
    /\ opTask' = [opTask EXCEPT ![t] =
          IF opTask[t].peer_id \in DOMAIN activeTunnels
          THEN [Keeping(@, MapLock, "read") EXCEPT
                   !.pc = "send", !.tunnel_id = activeTunnels[opTask[t].peer_id]]
          ELSE Completed(Locked(@, MapLock, "read"), "IKEError")]
    /\ UNCHANGED <<tunVars, activeTunnels>>
    /\ UNCHANGED <<node, nodeRet, peers, addTask>>
    /\ UNCHANGED <<tierVars, dnsVars, ribVars, bgpVars>>

\* send_secure_data: TunnelManager::send_packet under the registry's write
\* lock, then the return, which drops the read guard.
SendPacketLocked(t) ==
    /\ t \in Running
    /\ opTask[t].op = "send_secure_data" /\ opTask[t].pc = "send"
    /\ CanWrite(RegistryLock, t)
    /\ LET r == send_packet(tunnels, opTask[t].tunnel_id, <<69, 0>>)
       IN  /\ tunnels' = r[2]
           /\ opTask' = [opTask EXCEPT ![t] =
                 Completed(Locked(@, RegistryLock, "write"),
                           IF r[1].ok THEN "Ok" ELSE "IKEError")]
    /\ UNCHANGED <<tunLock, tunRet, tunIssued, tunHist, activeTunnels>>
    /\ UNCHANGED <<node, nodeRet, peers, addTask>>
    /\ UNCHANGED <<tierVars, dnsVars, ribVars, bgpVars>>

\* Vx0Node::close_tunnel: active_tunnels.write().await and the remove.  The
\* write guard lives to the end of the function.
CloseRemove(t) ==
    /\ t \in Running
    /\ opTask[t].op = "close_tunnel" /\ opTask[t].pc = "call"
    /\ CanWrite(MapLock, t)
    /\ activeTunnels' = MapRemove(activeTunnels, opTask[t].peer_id)
    /\ opTask' = [opTask EXCEPT ![t] =
          IF opTask[t].peer_id \in DOMAIN activeTunnels
          THEN [Keeping(@, MapLock, "write") EXCEPT
                   !.pc = "close", !.tunnel_id = activeTunnels[opTask[t].peer_id]]
          ELSE Completed(Locked(@, MapLock, "write"), "Ok")]
    /\ UNCHANGED tunVars
    /\ UNCHANGED <<node, nodeRet, peers, addTask>>
    /\ UNCHANGED <<tierVars, dnsVars, ribVars, bgpVars>>

\* Vx0Node::close_tunnel: TunnelManager::close_tunnel under the registry's
\* write lock, then the return.
CloseRegistry(t) ==
    /\ t \in Running
    /\ opTask[t].op = "close_tunnel" /\ opTask[t].pc = "close"
    /\ CanWrite(RegistryLock, t)
    /\ tunnels' = close_tunnel(tunnels, opTask[t].tunnel_id)[2]
    /\ opTask' = [opTask EXCEPT ![t] = Completed(Locked(@, RegistryLock, "write"), "Ok")]
    /\ UNCHANGED <<tunLock, tunRet, tunIssued, tunHist, activeTunnels>>
    /\ UNCHANGED <<node, nodeRet, peers, addTask>>
    /\ UNCHANGED <<tierVars, dnsVars, ribVars, bgpVars>>

\* tunnel_health_check: active_tunnels.read().await; the loop runs over the
\* entries with the read guard held.
HealthBegin(t) ==
    /\ t \in Running
    /\ opTask[t].op = "tunnel_health_check" /\ opTask[t].pc = "call"
    /\ CanRead(MapLock, t)
    /\ opTask' = [opTask EXCEPT ![t] =
          IF activeTunnels = << >>
          THEN Completed(Locked(@, MapLock, "read"), "Ok")
          ELSE [Keeping(@, MapLock, "read") EXCEPT
                   !.pc = "check", !.todo = DOMAIN activeTunnels]]
    /\ UNCHANGED <<tunVars, activeTunnels>>
    /\ UNCHANGED <<node, nodeRet, peers, addTask>>
    /\ UNCHANGED <<tierVars, dnsVars, ribVars, bgpVars>>

\* tunnel_health_check, one iteration: TunnelManager::get_tunnel under the
\* registry's read lock; after the last entry the function returns.
HealthGet(t) ==
    /\ t \in Running
    /\ opTask[t].op = "tunnel_health_check" /\ opTask[t].pc = "check"
    /\ CanRead(RegistryLock, t)
    /\ LET peer_id == CHOOSE p \in opTask[t].todo : \A q \in opTask[t].todo : p <= q
           got == Locked(opTask[t], RegistryLock, "read")
       IN  opTask' = [opTask EXCEPT ![t] =
              IF opTask[t].todo = {peer_id} THEN Completed(got, "Ok")
              ELSE [got EXCEPT !.todo = @ \ {peer_id}]]
    /\ UNCHANGED <<tunVars, activeTunnels>>
    /\ UNCHANGED <<node, nodeRet, peers, addTask>>
    /\ UNCHANGED <<tierVars, dnsVars, ribVars, bgpVars>>

\* TunnelManager::rekey_tunnel up to the sleep inside IKESession::rekey, the
\* registry's write guard taken first: an unknown id returns Ok, a session
\* that is not established returns the error with the status already
\* Rekeying, otherwise the task sleeps with the guard.
RekeySleeps(t) ==
    /\ t \in Running
    /\ opTask[t].op = "rekey_tunnel" /\ opTask[t].pc = "call"
    /\ CanWrite(RegistryLock, t)
    /\ LET tunnel_id == opTask[t].tunnel_id
           got == Locked(opTask[t], RegistryLock, "write")
       IN  IF tunnel_id \notin DOMAIN tunnels
           THEN /\ opTask' = [opTask EXCEPT ![t] = Completed(got, "Ok")]
                /\ UNCHANGED <<tunnels, tunLock>>
           ELSE IF ~is_established(tunnels[tunnel_id].ike_state)
           THEN /\ tunnels' = [tunnels EXCEPT ![tunnel_id].status = "Rekeying"]
                /\ opTask' = [opTask EXCEPT ![t] = Completed(got, "IKEError")]
                /\ UNCHANGED tunLock
           ELSE /\ tunnels' = [tunnels EXCEPT ![tunnel_id].status = "Rekeying",
                                              ![tunnel_id].ike_state = "Rekeying"]
                /\ tunLock' = tunnel_id
                /\ opTask' = [opTask EXCEPT ![t] =
                      [Keeping(opTask[t], RegistryLock, "write") EXCEPT !.pc = "sleep"]]
    /\ UNCHANGED <<tunRet, tunIssued, tunHist, activeTunnels>>
    /\ UNCHANGED <<node, nodeRet, peers, addTask>>
    /\ UNCHANGED <<tierVars, dnsVars, ribVars, bgpVars>>

\* The sleep of IKESession::rekey ends: keys derived, session and tunnel
\* Established, rekey_tunnel returns and the guard is dropped.
RekeyWakes(t) ==
    /\ t \in Running
    /\ opTask[t].op = "rekey_tunnel" /\ opTask[t].pc = "sleep"
    /\ tunnels' = [tunnels EXCEPT ![opTask[t].tunnel_id].status = "Established",
                                  ![opTask[t].tunnel_id].ike_state = "Established"]
    /\ tunLock' = 0
    /\ opTask' = [opTask EXCEPT ![t] = Completed(@, "Ok")]
    /\ UNCHANGED <<tunRet, tunIssued, tunHist, activeTunnels>>
    /\ UNCHANGED <<node, nodeRet, peers, addTask>>
    /\ UNCHANGED <<tierVars, dnsVars, ribVars, bgpVars>>

\* TunnelManager::cleanup_failed_tunnels under the registry's write lock.
CleanupLocked(t) ==
    /\ t \in Running
    /\ opTask[t].op = "cleanup_failed_tunnels" /\ opTask[t].pc = "call"
    /\ CanWrite(RegistryLock, t)
    /\ LET failed_tunnels == {id \in DOMAIN tunnels : tunnels[id].status = "Failed"}
       IN  tunnels' = [id \in DOMAIN tunnels \ failed_tunnels |-> tunnels[id]]
    /\ opTask' = [opTask EXCEPT ![t] = Completed(Locked(@, RegistryLock, "write"), "Ok")]
    /\ UNCHANGED <<tunLock, tunRet, tunIssued, tunHist, activeTunnels>>
    /\ UNCHANGED <<node, nodeRet, peers, addTask>>
    /\ UNCHANGED <<tierVars, dnsVars, ribVars, bgpVars>>

\* Whatever step task t can take inside the operation it has called.
OpStep(t) ==
    \/ CreateTunnelInsert(t) \/ CreateTunnelRecord(t)
    \/ SendLookup(t) \/ SendPacketLocked(t)
    \/ CloseRemove(t) \/ CloseRegistry(t)
    \/ HealthBegin(t) \/ HealthGet(t)
    \/ RekeySleeps(t) \/ RekeyWakes(t)
    \/ CleanupLocked(t)

-----------------------------------------------------------------------------
(* Routing policy: src/network/bgp/routing.rs (RoutingPolicy).  A policy is  *)
(* [local_asn, node_tier], its route_policy being the tier's                 *)
(* route_advertisement_policy; a route is a RouteEntry as in the RIB.        *)

\* RoutingPolicy::has_asn_loop
has_asn_loop(route, peer_asn) ==
    \E i \in 1..Len(route.as_path) : route.as_path[i] = peer_asn

\* RoutingPolicy::is_default_route
is_default_route(route) ==
    route.network = Net4(0, 0, 0, 0, 0) \/ route.network = Net4(10, 0, 0, 0, 8)

\* RoutingPolicy::apply_regional_advertisement_filter
apply_regional_advertisement_filter(route, peer_tier) ==
    CASE peer_tier = "Backbone" -> route.network.len <= 16
      [] peer_tier = "Regional" -> ~has_asn_loop(route, 0)
      [] peer_tier = "Edge" ->
            is_default_route(route) \/ (route.network.len >= 24 /\ route.local_pref >= 100)

\* RoutingPolicy::should_advertise_route
should_advertise_route(policy, route, peer_asn) ==
    LET peer_tier == RoutingPolicy_asn_to_tier(peer_asn)
        route_policy == route_advertisement_policy(policy.node_tier)
    IN  CASE route_policy = "FullTable" -> ~has_asn_loop(route, peer_asn)
          [] route_policy = "RegionalFilter" ->
                apply_regional_advertisement_filter(route, peer_tier)
          [] route_policy = "DefaultOnly" ->
                route.as_path # << >> /\ Head(route.as_path) = policy.local_asn

\* RoutingPolicy::evaluate_route.  The sum is a u32; the local_pref values
\* below are far from where it would wrap.
evaluate_route(route) ==
    LET by_pref == 0 + route.local_pref
        by_path == IF route.as_path # << >>
                   THEN by_pref + (100 \div Len(route.as_path))
                   ELSE by_pref
    IN  CASE route.origin = "IGP" -> by_path + 10
          [] route.origin = "EGP" -> by_path + 5
          [] route.origin = "Incomplete" -> by_path + 0

\* The loop of select_best_route over routes.iter().skip(1).
RECURSIVE select_best_loop(_, _, _)
select_best_loop(rest, best_route, best_preference) ==
    IF rest = << >> THEN best_route
    ELSE LET preference == evaluate_route(Head(rest))
         IN  IF preference > best_preference
             THEN select_best_loop(Tail(rest), Head(rest), preference)
             ELSE select_best_loop(Tail(rest), best_route, best_preference)

RECURSIVE select_best_loop_LastWins(_, _, _)
select_best_loop_LastWins(rest, best_route, best_preference) ==
    IF rest = << >> THEN best_route
    ELSE LET preference == evaluate_route(Head(rest))
         IN  IF preference >= best_preference
             THEN select_best_loop_LastWins(Tail(rest), Head(rest), preference)
             ELSE select_best_loop_LastWins(Tail(rest), best_route, best_preference)

select_best_route_LastWins(routes) ==
    IF routes = << >> THEN None
    ELSE Some(select_best_loop_LastWins(Tail(routes), routes[1], evaluate_route(routes[1])))

\* RoutingPolicy::select_best_route
select_best_route(routes) ==
    IF routes = << >> THEN None
    ELSE Some(select_best_loop(Tail(routes), routes[1], evaluate_route(routes[1])))

(* Inputs.  One policy per tier; peers of every tier and the ASN 0; paths   *)
(* empty, through the peer, through the local ASN, and of three and four    *)
(* hops; prefixes around the lengths 16 and 24 the filters compare with.     *)
Policies ==
    {[local_asn |-> LocalAsn, node_tier |-> "Backbone"],
     [local_asn |-> 65100, node_tier |-> "Regional"],
     [local_asn |-> 66000, node_tier |-> "Edge"]}
PolicyPeers == {PeerAsn, 65101, 66002, 0}
PolicyPaths(local_asn, peer_asn) ==
    {<< >>, <<peer_asn>>, <<local_asn>>, <<peer_asn, local_asn>>,
     <<peer_asn, 65200, 65201>>, <<peer_asn, 65200, 65201, 65202>>}
PolicyNetworks ==
    {Net4(0, 0, 0, 0, 0), Net4(10, 0, 0, 0, 8), Net4(10, 1, 0, 0, 16),
     Net4(10, 1, 0, 0, 17), Net4(10, 1, 1, 0, 23), Net4(10, 1, 1, 0, 24),
     Net4(10, 1, 1, 1, 32)}
LocalPrefs == {0, 99, 100, 150}
BGPOrigins == {"IGP", "EGP", "Incomplete"}
PolicyRoute(network, as_path, origin, local_pref) ==
    [network |-> network, next_hop |-> V4(10, 0, 1, 2), as_path |-> as_path,
     origin |-> origin, local_pref |-> local_pref, med |-> 0]

\* The candidates of select_best_route: the two routes of
\* tests::test_best_route_selection and routes that tie on the score.
Candidates ==
    {PolicyRoute(Net4(10, 0, 0, 0, 24), <<65001, 65002>>, "IGP", 100),
     PolicyRoute(Net4(10, 0, 0, 0, 24), <<65001, 65003, 65004>>, "EGP", 150),
     PolicyRoute(Net4(10, 0, 0, 0, 24), <<65001>>, "IGP", 100),
     PolicyRoute(Net4(10, 0, 0, 0, 24), <<65001, 65005>>, "IGP", 150),
     PolicyRoute(Net4(10, 0, 0, 0, 24), << >>, "Incomplete", 0)}

\* RoutingPolicy::should_accept_route is called.
ShouldAcceptRoute ==
    /\ bgpRet = NoCall
    /\ \E policy \in Policies, peer_asn \in PolicyPeers, network \in PolicyNetworks,
          local_pref \in LocalPrefs :
       \E as_path \in PolicyPaths(policy.local_asn, peer_asn) :
         LET route == PolicyRoute(network, as_path, "IGP", local_pref)
         IN  bgpRet' = [fn |-> "should_accept_route", policy |-> policy, route |-> route,
                        peer_asn |-> peer_asn,
                        result |-> should_accept_route(policy.node_tier, route, peer_asn)]
    /\ UNCHANGED <<bgpSess, bgpListener, bgpDrv, bgpStream>>
    /\ UNCHANGED <<tierVars, nodeVars, dnsVars, ribVars, tunVars>>

\* RoutingPolicy::should_advertise_route is called.
ShouldAdvertiseRoute ==
    /\ bgpRet = NoCall
    /\ \E policy \in Policies, peer_asn \in PolicyPeers, network \in PolicyNetworks,
          local_pref \in LocalPrefs :
       \E as_path \in PolicyPaths(policy.local_asn, peer_asn) :
         LET route == PolicyRoute(network, as_path, "IGP", local_pref)
         IN  bgpRet' = [fn |-> "should_advertise_route", policy |-> policy,
                        route |-> route, peer_asn |-> peer_asn,
                        result |-> should_advertise_route(policy, route, peer_asn)]
    /\ UNCHANGED <<bgpSess, bgpListener, bgpDrv, bgpStream>>
    /\ UNCHANGED <<tierVars, nodeVars, dnsVars, ribVars, tunVars>>

\* RoutingPolicy::evaluate_route is called.
EvaluateRoute ==
    /\ bgpRet = NoCall
    /\ \E origin \in BGPOrigins, local_pref \in LocalPrefs,
          as_path \in PolicyPaths(LocalAsn, PeerAsn) :
         LET route == PolicyRoute(Net4(10, 0, 0, 0, 24), as_path, origin, local_pref)
         IN  bgpRet' = [fn |-> "evaluate_route", route |-> route,
                        result |-> evaluate_route(route)]
    /\ UNCHANGED <<bgpSess, bgpListener, bgpDrv, bgpStream>>
    /\ UNCHANGED <<tierVars, nodeVars, dnsVars, ribVars, tunVars>>

\* RoutingPolicy::select_best_route is called.
SelectBestRoute ==
    /\ bgpRet = NoCall
    /\ \E routes \in SeqsUpTo(Candidates, 3) :
         bgpRet' = [fn |-> "select_best_route", routes |-> routes,
                    result |-> select_best_route(routes)]
    /\ UNCHANGED <<bgpSess, bgpListener, bgpDrv, bgpStream>>
    /\ UNCHANGED <<tierVars, nodeVars, dnsVars, ribVars, tunVars>>

-----------------------------------------------------------------------------
(* Specifications.  Each starts its own subsystem in its constructed      *)
(* state and holds the other subsystems' variables at rest.                 *)

InitTier ==
    /\ tierCall \in TierCalls
    /\ tierRet = Pending
    /\ node = [state |-> "none"]
    /\ nodeRet = NoCall
    /\ peers = << >>
    /\ records = Vx0DNS_new
    /\ dnsRet = NoCall
    /\ rib = RouteTable_new
    /\ ribLock = 0
    /\ ribTask = << >>
    /\ ribRet = NoCall
    /\ ribWrites = 0
    /\ tunnels = << >>
    /\ tunLock = 0
    /\ tunRet = NoCall
    /\ tunIssued = 0
    /\ tunHist = << >>
    /\ bgpSess = [state |-> "none"]
    /\ bgpListener = "accepting"
    /\ bgpDrv = << >>
    /\ bgpRet = NoCall
    /\ activeTunnels = << >>
    /\ addTask = << >>
    /\ opTask = << >>
    /\ bgpStream = [phase |-> "none"]

TierNext == CallCanPeerWith \/ CallAsnToTier \/ CallGetAsnRange \/ CallMaxPeers
SpecTier == InitTier /\ [][TierNext]_vars

InitNode ==
    /\ tierCall = NoCall
    /\ tierRet = Pending
    /\ node = [state |-> "none"]
    /\ nodeRet = NoCall
    /\ peers = << >>
    /\ records = Vx0DNS_new
    /\ dnsRet = NoCall
    /\ rib = RouteTable_new
    /\ ribLock = 0
    /\ ribTask = << >>
    /\ ribRet = NoCall
    /\ ribWrites = 0
    /\ tunnels = << >>
    /\ tunLock = 0
    /\ tunRet = NoCall
    /\ tunIssued = 0
    /\ tunHist = << >>
    /\ bgpSess = [state |-> "none"]
    /\ bgpListener = "accepting"
    /\ bgpDrv = << >>
    /\ bgpRet = NoCall
    /\ activeTunnels = << >>
    /\ addTask = << >>
    /\ opTask = << >>
    /\ bgpStream = [phase |-> "none"]

NodeNext == New \/ AddPeer \/ RemovePeer
SpecNode == InitNode /\ [][NodeNext]_vars

\* The orchestrator with the shipped test program among its callers.
SimpleTestNext == NodeNext \/ SimpleTest
SpecSimpleTest == InitNode /\ [][SimpleTestNext]_vars

InitDns ==
    /\ tierCall = NoCall
    /\ tierRet = Pending
    /\ node = [state |-> "none"]
    /\ nodeRet = NoCall
    /\ peers = << >>
    /\ records = Vx0DNS_new
    /\ dnsRet = NoCall
    /\ rib = RouteTable_new
    /\ ribLock = 0
    /\ ribTask = << >>
    /\ ribRet = NoCall
    /\ ribWrites = 0
    /\ tunnels = << >>
    /\ tunLock = 0
    /\ tunRet = NoCall
    /\ tunIssued = 0
    /\ tunHist = << >>
    /\ bgpSess = [state |-> "none"]
    /\ bgpListener = "accepting"
    /\ bgpDrv = << >>
    /\ bgpRet = NoCall
    /\ activeTunnels = << >>
    /\ addTask = << >>
    /\ opTask = << >>
    /\ bgpStream = [phase |-> "none"]

DnsNext == RegisterService \/ ResolveVx0Domain \/ Resolve \/ CreateVx0NetworkRecord
SpecDns == InitDns /\ [][DnsNext]_vars

InitRib ==
    /\ tierCall = NoCall
    /\ tierRet = Pending
    /\ node = [state |-> "none"]
    /\ nodeRet = NoCall
    /\ peers = << >>
    /\ records = Vx0DNS_new
    /\ dnsRet = NoCall
    /\ rib = RouteTable_new
    /\ ribLock = 0
    /\ ribTask = << >>
    /\ ribRet = NoCall
    /\ ribWrites = 0
    /\ tunnels = << >>
    /\ tunLock = 0
    /\ tunRet = NoCall
    /\ tunIssued = 0
    /\ tunHist = << >>
    /\ bgpSess = [state |-> "none"]
    /\ bgpListener = "accepting"
    /\ bgpDrv = << >>
    /\ bgpRet = NoCall
    /\ activeTunnels = << >>
    /\ addTask = << >>
    /\ opTask = << >>
    /\ bgpStream = [phase |-> "none"]

RibNext == AddRoute \/ RemoveRoute \/ GetRoute \/ FindBestRoute \/ GetRoutes
SpecRib == InitRib /\ [][RibNext]_vars

InitRibDaemon ==
    /\ tierCall = NoCall
    /\ tierRet = Pending
    /\ node = [state |-> "none"]
    /\ nodeRet = NoCall
    /\ peers = << >>
    /\ records = Vx0DNS_new
    /\ dnsRet = NoCall
    /\ rib = RouteTable_new
    /\ ribLock = 0
    /\ ribTask = [t \in 1..RibTasks |-> [pc |-> "idle"]]
    /\ ribRet = NoCall
    /\ ribWrites = 0
    /\ tunnels = << >>
    /\ tunLock = 0
    /\ tunRet = NoCall
    /\ tunIssued = 0
    /\ tunHist = << >>
    /\ bgpSess = [state |-> "none"]
    /\ bgpListener = "accepting"
    /\ bgpDrv = << >>
    /\ bgpRet = NoCall
    /\ activeTunnels = << >>
    /\ addTask = << >>
    /\ opTask = << >>
    /\ bgpStream = [phase |-> "none"]

RibDaemonNext ==
    AddRoute \/ RemoveRoute \/ GetRoute \/ FindBestRoute \/ GetRoutes \/ DaemonAddRoute
SpecRibDaemon == InitRibDaemon /\ [][RibDaemonNext]_vars

InitTunnel ==
    /\ tierCall = NoCall
    /\ tierRet = Pending
    /\ node = [state |-> "none"]
    /\ nodeRet = NoCall
    /\ peers = << >>
    /\ records = Vx0DNS_new
    /\ dnsRet = NoCall
    /\ rib = RouteTable_new
    /\ ribLock = 0
    /\ ribTask = << >>
    /\ ribRet = NoCall
    /\ ribWrites = 0
    /\ tunnels = << >>
    /\ tunLock = 0
    /\ tunRet = NoCall
    /\ tunIssued = 0
    /\ tunHist = << >>
    /\ bgpSess = [state |-> "none"]
    /\ bgpListener = "accepting"
    /\ bgpDrv = << >>
    /\ bgpRet = NoCall
    /\ activeTunnels = << >>
    /\ addTask = << >>
    /\ opTask = << >>
    /\ bgpStream = [phase |-> "none"]

TunnelNext ==
    \/ CreateTunnel \/ CloseTunnel \/ SendPacket \/ ReceivePacket
    \/ RekeyTunnel \/ RekeyComplete \/ RekeyDropped
    \/ CleanupFailedTunnels \/ GetTunnelStats
SpecTunnel == InitTunnel /\ [][TunnelNext]_vars

InitBgpSession ==
    /\ tierCall = NoCall
    /\ tierRet = Pending
    /\ node = [state |-> "none"]
    /\ nodeRet = NoCall
    /\ peers = << >>
    /\ records = Vx0DNS_new
    /\ dnsRet = NoCall
    /\ rib = RouteTable_new
    /\ ribLock = 0
    /\ ribTask = << >>
    /\ ribRet = NoCall
    /\ ribWrites = 0
    /\ tunnels = << >>
    /\ tunLock = 0
    /\ tunRet = NoCall
    /\ tunIssued = 0
    /\ tunHist = << >>
    /\ bgpSess = [state |-> "none"]
    /\ bgpListener = "accepting"
    /\ bgpDrv = << >>
    /\ bgpRet = NoCall
    /\ activeTunnels = << >>
    /\ addTask = << >>
    /\ opTask = << >>
    /\ bgpStream = [phase |-> "none"]

BgpSessionNext ==
    \/ ConnectToPeer \/ HandleConnection \/ Establish \/ EstablishComplete \/ SessionClose
    \/ StartKeepalive \/ SendUpdate
SpecBgpSession == InitBgpSession /\ [][BgpSessionNext]_vars

InitBgpDriver ==
    /\ tierCall = NoCall
    /\ tierRet = Pending
    /\ node = [state |-> "none"]
    /\ nodeRet = NoCall
    /\ peers = << >>
    /\ records = Vx0DNS_new
    /\ dnsRet = NoCall
    /\ rib \in {RouteTable_new,
                add_route(RouteTable_new,
                          DaemonRoute(LocalAsn, Net4(10, 1, 0, 0, 16), V4(10, 0, 1, 1), "IGP"))}
    /\ ribLock = 0
    /\ ribTask = << >>
    /\ ribRet = NoCall
    /\ ribWrites = 0
    /\ tunnels = << >>
    /\ tunLock = 0
    /\ tunRet = NoCall
    /\ tunIssued = 0
    /\ tunHist = << >>
    /\ bgpSess = [state |-> "none"]
    /\ bgpListener = "accepting"
    /\ bgpDrv = << >>
    /\ bgpRet = NoCall
    /\ activeTunnels = << >>
    /\ addTask = << >>
    /\ opTask = << >>
    /\ bgpStream = [phase |-> "none"]

BgpDriverNext == Accept \/ AcceptError \/ DriverOpen \/ LoopTick \/ LoopReceive
SpecBgpDriver == InitBgpDriver /\ [][BgpDriverNext]_vars

\* The interval timer of a running keepalive loop fires again and again.
SpecBgpDriverLive == SpecBgpDriver /\ WF_vars(LoopTick)

\* A connection inside keepalive_loop, the peer about to send its frames.
InitBgpStream ==
    /\ tierCall = NoCall
    /\ tierRet = Pending
    /\ node = [state |-> "none"]
    /\ nodeRet = NoCall
    /\ peers = << >>
    /\ records = Vx0DNS_new
    /\ dnsRet = NoCall
    /\ rib \in {RouteTable_new,
                add_route(RouteTable_new,
                          DaemonRoute(LocalAsn, Net4(10, 1, 0, 0, 16), V4(10, 0, 1, 1), "IGP"))}
    /\ ribLock = 0
    /\ ribTask = << >>
    /\ ribRet = NoCall
    /\ ribWrites = 0
    /\ tunnels = << >>
    /\ tunLock = 0
    /\ tunRet = NoCall
    /\ tunIssued = 0
    /\ tunHist = << >>
    /\ bgpSess = [state |-> "none"]
    /\ bgpListener = "accepting"
    /\ bgpDrv = << >>
    /\ bgpRet = NoCall
    /\ activeTunnels = << >>
    /\ addTask = << >>
    /\ opTask = << >>
    /\ \E frames \in [1..MaxStreamFrames -> StreamMessageTypes] :
          bgpStream = [phase |-> "loop", frames |-> frames, arrived |-> 0, buf |-> << >>,
                       recv |-> [pc |-> "len"], delivered |-> << >>, lost |-> 0,
                       misread |-> FALSE, exit |-> Pending]

BgpStreamNext == StreamArrive \/ StreamReceive \/ StreamTick
SpecBgpStream == InitBgpStream /\ [][BgpStreamNext]_vars

\* No call of the routing policy made yet.
InitPolicy ==
    /\ tierCall = NoCall
    /\ tierRet = Pending
    /\ node = [state |-> "none"]
    /\ nodeRet = NoCall
    /\ peers = << >>
    /\ records = Vx0DNS_new
    /\ dnsRet = NoCall
    /\ rib = RouteTable_new
    /\ ribLock = 0
    /\ ribTask = << >>
    /\ ribRet = NoCall
    /\ ribWrites = 0
    /\ tunnels = << >>
    /\ tunLock = 0
    /\ tunRet = NoCall
    /\ tunIssued = 0
    /\ tunHist = << >>
    /\ bgpSess = [state |-> "none"]
    /\ bgpListener = "accepting"
    /\ bgpDrv = << >>
    /\ bgpRet = NoCall
    /\ activeTunnels = << >>
    /\ addTask = << >>
    /\ opTask = << >>
    /\ bgpStream = [phase |-> "none"]

PolicyNext == ShouldAcceptRoute \/ ShouldAdvertiseRoute \/ EvaluateRoute \/ SelectBestRoute
SpecPolicy == InitPolicy /\ [][PolicyNext]_vars

\* A constructed node with no tunnels, its tasks idle.
InitNodeLocks ==
    /\ tierCall = NoCall
    /\ tierRet = Pending
    /\ node = [state |-> "constructed", asn |-> 65100, tier |-> "Regional",
               ipv4_addr |-> <<10, 0, 2, 1>>]
    /\ nodeRet = NoCall
    /\ peers = << >>
    /\ records = Vx0DNS_new
    /\ dnsRet = NoCall
    /\ rib = RouteTable_new
    /\ ribLock = 0
    /\ ribTask = << >>
    /\ ribRet = NoCall
    /\ ribWrites = 0
    /\ tunnels = << >>
    /\ tunLock = 0
    /\ tunRet = NoCall
    /\ tunIssued = 0
    /\ tunHist = << >>
    /\ bgpSess = [state |-> "none"]
    /\ bgpListener = "accepting"
    /\ bgpDrv = << >>
    /\ bgpRet = NoCall
    /\ activeTunnels = << >>
    /\ addTask = << >>
    /\ opTask = << >>
    /\ bgpStream = [phase |-> "none"]

NodeLocksNext == \E t \in OpTasks : OpCall(t) \/ OpStep(t)
SpecNodeLocks == InitNodeLocks /\ [][NodeLocksNext]_vars

\* The runtime runs every task that can run, the RwLocks hand their guards
\* out in the order asked for, and a sleep ends.
SpecNodeLocksLive == SpecNodeLocks /\ \A t \in OpTasks : SF_vars(OpStep(t))

\* A constructed node of any tier, with no peers yet or one short of its limit.
InitNodeTasks ==
    /\ tierCall = NoCall
    /\ tierRet = Pending
    /\ \E tier \in NodeTier :
          /\ node = [state |-> "constructed", asn |-> get_asn_range(tier)[1], tier |-> tier,
                     ipv4_addr |-> <<10, 0, 2, 1>>]
          /\ peers \in {<< >>,
                        [id \in 1..(max_peers(tier) - 1) |->
                            PeerConnection_new(id, 65100)]}
    /\ nodeRet = NoCall
    /\ records = Vx0DNS_new
    /\ dnsRet = NoCall
    /\ rib = RouteTable_new
    /\ ribLock = 0
    /\ ribTask = << >>
    /\ ribRet = NoCall
    /\ ribWrites = 0
    /\ tunnels = << >>
    /\ tunLock = 0
    /\ tunRet = NoCall
    /\ tunIssued = 0
    /\ tunHist = << >>
    /\ bgpSess = [state |-> "none"]
    /\ bgpListener = "accepting"
    /\ bgpDrv = << >>
    /\ bgpRet = NoCall
    /\ activeTunnels = << >>
    /\ addTask = << >>
    /\ opTask = << >>
    /\ bgpStream = [phase |-> "none"]

NodeTasksNext == AddPeerCall \/ AddPeerCheck \/ AddPeerInsert \/ RemovePeer \/ Stop
SpecNodeTasks == InitNodeTasks /\ [][NodeTasksNext]_vars

\* A constructed node of any tier, with no peers yet or two short of its limit.
InitJoin ==
    /\ tierCall = NoCall
    /\ tierRet = Pending
    /\ \E tier \in NodeTier :
          /\ node = [state |-> "constructed", asn |-> get_asn_range(tier)[1], tier |-> tier,
                     ipv4_addr |-> <<10, 0, 2, 1>>]
          /\ peers \in {<< >>,
                        [id \in 1..(max_peers(tier) - 2) |->
                            PeerConnection_new(id, 65100)]}
    /\ nodeRet = NoCall
    /\ records = Vx0DNS_new
    /\ dnsRet = NoCall
    /\ rib = RouteTable_new
    /\ ribLock = 0
    /\ ribTask = << >>
    /\ ribRet = NoCall
    /\ ribWrites = 0
    /\ tunnels = << >>
    /\ tunLock = 0
    /\ tunRet = NoCall
    /\ tunIssued = 0
    /\ tunHist = << >>
    /\ bgpSess = [state |-> "none"]
    /\ bgpListener = "accepting"
    /\ bgpDrv = << >>
    /\ bgpRet = NoCall
    /\ activeTunnels = << >>
    /\ addTask = << >>
    /\ opTask = << >>
    /\ bgpStream = [phase |-> "none"]

JoinNext == JoinNetwork \/ EstablishInitialConnections
SpecJoin == InitJoin /\ [][JoinNext]_vars

-----------------------------------------------------------------------------
(* Claims.                                                                  *)

\* The peering matrix as the specification states it.
AllowedPairs ==
    { <<"Backbone", "Backbone">>, <<"Backbone", "Regional">>, <<"Regional", "Backbone">>,
      <<"Regional", "Regional">>, <<"Regional", "Edge">>, <<"Edge", "Regional">> }

\* The tier a configuration declares, as the specification states it.
DeclaredTier(s) ==
    IF s \in {"Backbone", "Tier1"} THEN "Backbone"
    ELSE IF s \in {"Regional", "Tier2"} THEN "Regional"
    ELSE "Edge"

\* The peer limit per tier, as the specification states it.
PeerLimit(t) == IF t = "Backbone" THEN 50 ELSE IF t = "Regional" THEN 20 ELSE 5

(* C1: add_peer(pc) fails with a Network error and leaves the peer map      *)
(* unchanged exactly when the peer count is already >= the tier's limit     *)
(* (50/20/5) or the node's tier may not peer with the tier of pc.peer_asn;  *)
(* in every other case it returns Ok and the map becomes the old map with   *)
(* pc stored under pc.peer_id.                                              *)
C1_AddPeerContract ==
    [][ nodeRet'.fn = "add_peer" =>
          LET pc == nodeRet'.peer
              rejected ==
                  \/ Cardinality(DOMAIN peers) >= PeerLimit(node.tier)
                  \/ <<node.tier, Vx0Node_asn_to_tier(pc.peer_asn)>> \notin AllowedPairs
          IN  /\ (nodeRet'.result = "NetworkError") <=> rejected
              /\ rejected => peers' = peers
              /\ ~rejected =>
                    /\ nodeRet'.result = "Ok"
                    /\ DOMAIN peers' = DOMAIN peers \cup {pc.peer_id}
                    /\ peers'[pc.peer_id] = pc
                    /\ \A k \in DOMAIN peers \ {pc.peer_id} : peers'[k] = peers[k]
      ]_vars

\* A Backbone node already holding 50 peers refuses a peer of a tier it may peer with.
C1_Witness ==
    /\ nodeRet.fn = "add_peer"
    /\ nodeRet.result = "NetworkError"
    /\ node.tier = "Backbone"
    /\ Cardinality(DOMAIN peers) = 50
    /\ Vx0Node_asn_to_tier(nodeRet.peer.peer_asn) = "Regional"

\* "ends in .vx0", read off the name's last four characters.
EndsInDotVx0(n) ==
    /\ Len(n) >= 4
    /\ n[Len(n) - 3] = "." /\ n[Len(n) - 2] = "v" /\ n[Len(n) - 1] = "x" /\ n[Len(n)] = "0"

OutsideNamespace(n) == ~EndsInDotVx0(n) /\ n # Name_vx0_network

(* C2: in every state reached by register calls, a name that neither ends   *)
(* in ".vx0" nor equals "vx0.network" resolves to None, through both        *)
(* Vx0Resolver.resolve and Vx0DNS.resolve_vx0_domain, with no store or      *)
(* fallback consulted; and no such name ever enters the record store.       *)
C2_NamespaceIsolation ==
    /\ \A n \in DnsNames :
         OutsideNamespace(n) =>
            /\ Vx0Resolver_resolve(records, n) = [ip |-> None, lookups |-> << >>]
            /\ resolve_vx0_domain(records, n) = [ip |-> None, lookups |-> << >>]
            /\ n \notin DOMAIN records
    /\ (dnsRet.fn \in {"resolve", "resolve_vx0_domain"} /\ OutsideNamespace(dnsRet.domain)) =>
            dnsRet.result = [ip |-> None, lookups |-> << >>]

\* With a service registered beside the preseeded records, "avx0" (no dot
\* before vx0) has been resolved and came back empty.
C2_Witness ==
    /\ dnsRet.fn = "resolve"
    /\ dnsRet.domain = Name_avx0
    /\ dnsRet.result.ip = None
    /\ \E n \in DOMAIN records : Len(records[n]) > 1

(* C7: can_peer_with is symmetric, and true exactly for Backbone-Backbone,  *)
(* Backbone-Regional, Regional-Regional and Regional-Edge in either order.  *)
C7_PeeringMatrix ==
    (tierRet.done /\ tierCall.fn = "can_peer_with") =>
        /\ tierRet.val = (<<tierCall.self, tierCall.other>> \in AllowedPairs)
        /\ tierRet.val = can_peer_with(tierCall.other, tierCall.self)

C7_Witness ==
    /\ tierRet.done
    /\ tierCall.fn = "can_peer_with"
    /\ tierCall.self = "Edge" /\ tierCall.other = "Regional"
    /\ tierRet.val = TRUE

(* C8: every classifier maps each ASN of a tier's range to that tier, every *)
(* ASN outside 65000-69999 to Edge, and the four classifiers (node, routing *)
(* policy, bootstrap, joining) agree on every ASN.                          *)
C8_AsnClassification ==
    (tierRet.done /\ tierCall.fn = "asn_to_tier") =>
        LET x == tierCall.asn
        IN  /\ \A t \in NodeTier :
                 (get_asn_range(t)[1] <= x /\ x <= get_asn_range(t)[2]) => tierRet.val = t
            /\ (x < 65000 \/ x > 69999) => tierRet.val = "Edge"
            /\ \A impl \in Classifiers : asn_to_tier_of(impl, x) = tierRet.val

C8_Witness ==
    /\ tierRet.done
    /\ tierCall.fn = "asn_to_tier"
    /\ tierCall.impl = "RoutingPolicy"
    /\ tierCall.asn = 65100
    /\ tierRet.val = "Regional"

\* The configured address strings that are IPv4 addresses.
WellFormedIpv4 == { <<"1","9","2",".","1","6","8",".","1",".","1","0","0">> }

AsnOutsideDeclaredRange(config) ==
    \/ config.asn < get_asn_range(DeclaredTier(config.tier))[1]
    \/ config.asn > get_asn_range(DeclaredTier(config.tier))[2]

(* C9 as stated: Vx0Node::new returns a Config error exactly when the       *)
(* configured ASN lies outside the range of the declared tier, and every    *)
(* constructed node has classify(asn) = tier.                               *)
C9_Original ==
    /\ nodeRet.fn = "new" =>
          ((nodeRet.result = "ConfigError") <=> AsnOutsideDeclaredRange(nodeRet.config))
    /\ node.state = "constructed" => Vx0Node_asn_to_tier(node.asn) = node.tier

(* C9 amended: Vx0Node::new returns a Config error exactly when the IPv4 or *)
(* IPv6 address string does not parse or the configured ASN lies outside    *)
(* the range of the declared tier (Tier1/Tier2 as Backbone/Regional, any    *)
(* unrecognised tier string as Edge); a constructed node carries the        *)
(* configured ASN and satisfies classify(asn) = tier.                       *)
C9_NewConfigError ==
    /\ nodeRet.fn = "new" =>
          /\ (nodeRet.result = "ConfigError") <=>
                \/ nodeRet.config.ipv4_address \notin WellFormedIpv4
                \/ ~nodeRet.config.ipv6_parses
                \/ AsnOutsideDeclaredRange(nodeRet.config)
          /\ (nodeRet.result = "Ok") <=> (node.state = "constructed")
          /\ nodeRet.result = "Ok" =>
                node.asn = nodeRet.config.asn /\ node.tier = DeclaredTier(nodeRet.config.tier)
    /\ node.state = "constructed" => Vx0Node_asn_to_tier(node.asn) = node.tier

\* tier = Backbone with asn = 66000 and well-formed addresses is refused.
C9_Witness ==
    /\ nodeRet.fn = "new"
    /\ nodeRet.config.tier = "Backbone"
    /\ nodeRet.config.asn = 66000
    /\ nodeRet.config.ipv4_address \in WellFormedIpv4
    /\ nodeRet.config.ipv6_parses
    /\ nodeRet.result = "ConfigError"
    /\ node.state = "none"


AddFns == {"add_route", "daemon_add_route"}

\* A step in which a RIB operation returns (as opposed to a daemon task
\* building its route or acquiring the lock).
RibOpReturns ==
    /\ ribLock' = 0
    /\ \A t \in DOMAIN ribTask : ribTask'[t].pc = ribTask[t].pc \/ ribTask'[t].pc = "done"

\* C3: the RIB holds at most one entry per prefix, filed under its own
\* prefix; every add_route(e) makes get_route(e.network) return e, whatever
\* was stored for that prefix before, and leaves get_route of every other
\* prefix as it was.
C3_AddRouteReplaces ==
    [][(RibOpReturns /\ ribWrites' # ribWrites /\ ribRet'.fn \in AddFns) =>
         LET e == ribRet'.route
         IN  /\ get_route(rib', e.network) = Some(e)
             /\ \A n \in (DOMAIN rib.routes \cup DOMAIN rib'.routes) \ {e.network} :
                    get_route(rib', n) = get_route(rib, n)
             /\ \A n \in DOMAIN rib'.routes :
                    /\ rib'.routes[n].network = n
                    /\ Cardinality({r \in get_all_routes(rib') : r.network = n}) = 1]_vars

\* An add_route has just replaced the entry of the only installed prefix:
\* two mutations, the second an add, one entry, now with next hop HopB.
C3_Witness ==
    /\ ribRet.fn = "add_route"
    /\ rib.version = 2
    /\ Cardinality(DOMAIN rib.routes) = 1
    /\ ribRet.route.next_hop = HopB
    /\ get_route(rib, ribRet.route.network) = Some(ribRet.route)

\* C4: every add_route (insert or replace, direct or through
\* BGPDaemon::add_route) and every remove_route that removes an entry
\* raises the version by exactly one; a remove_route of an absent prefix and
\* every read leave the table and its version unchanged; and the version
\* always equals the number of completed mutations, however the daemon
\* tasks interleave.
C4_VersionCountsMutations ==
    /\ rib.version = ribWrites
    /\ [][/\ rib'.version = ribWrites'
          /\ IF ~RibOpReturns THEN rib' = rib
             ELSE IF ribWrites' # ribWrites /\ ribRet'.fn \in AddFns
             THEN rib'.version = rib.version + 1
             ELSE IF ribRet'.fn = "remove_route"
             THEN IF ribRet'.network \in DOMAIN rib.routes
                  THEN /\ ribRet'.result = Some(rib.routes[ribRet'.network])
                       /\ rib'.version = rib.version + 1
                       /\ ribRet'.network \notin DOMAIN rib'.routes
                  ELSE ribRet'.result = None /\ rib' = rib
             ELSE rib' = rib]_vars

\* Both daemon tasks have completed an add for the same prefix, and nothing
\* else mutated the table: one entry, version 2.
C4_Witness ==
    /\ \A t \in DOMAIN ribTask : ribTask[t].pc = "done"
    /\ DOMAIN ribTask # {}
    /\ ribRet.fn = "daemon_add_route"
    /\ Cardinality(DOMAIN rib.routes) = 1
    /\ rib.version = RibTasks

\* C5: whenever find_best_route(i) returns an entry, the entry is stored,
\* its prefix contains i, and no stored prefix containing i is strictly
\* longer; with exactly 10.0.0.0/8 and 10.1.0.0/16 installed, 10.1.2.3
\* yields the /16 and 10.2.0.1 the /8.
C5_LpmSound ==
    ribRet.fn = "find_best_route" =>
      /\ ribRet.result # None =>
           LET e == ribRet.result[1]
           IN  /\ e \in get_all_routes(rib)
               /\ contains(e.network, ribRet.destination)
               /\ \A n \in DOMAIN rib.routes :
                      contains(n, ribRet.destination) => n.len <= e.network.len
      /\ DOMAIN rib.routes = NarrowPrefixes =>
           /\ ribRet.destination = V4(10, 1, 2, 3) =>
                ribRet.result = Some(rib.routes[Net4(10, 1, 0, 0, 16)])
           /\ ribRet.destination = V4(10, 2, 0, 1) =>
                ribRet.result = Some(rib.routes[Net4(10, 0, 0, 0, 8)])

\* 10.1.2.3 has been looked up with the default route, 10.0.0.0/8 and
\* 10.1.0.0/16 installed, and the /16 came back.
C5_Witness ==
    /\ ribRet.fn = "find_best_route"
    /\ ribRet.destination = V4(10, 1, 2, 3)
    /\ DOMAIN rib.routes = NarrowPrefixes \cup {DefaultNet}
    /\ ribRet.result = Some(rib.routes[Net4(10, 1, 0, 0, 16)])

\* C6: find_best_route(ip) returns None only when no stored prefix contains
\* ip; a stored 0.0.0.0/0 is returned for an IPv4 address no longer stored
\* prefix covers.
C6_LpmComplete ==
    (ribRet.fn = "find_best_route" /\ ribRet.result = None) =>
        \A n \in DOMAIN rib.routes : ~contains(n, ribRet.destination)

PacketFns == {"send_packet", "receive_packet"}

\* C10: send_packet and receive_packet return Ok only when the tunnel id was
\* registered with status Established when they were called; when the id is
\* unknown or the status is anything else they return an error and every
\* tunnel's status and traffic counters stay as they were.
C10_PacketsNeedEstablished ==
    [][tunRet'.fn \in PacketFns =>
         LET id == tunRet'.tunnel_id
             usable == id \in DOMAIN tunnels /\ tunnels[id].status = "Established"
         IN  /\ tunRet'.result.ok => usable
             /\ ~usable => ~tunRet'.result.ok /\ tunnels' = tunnels
             /\ ~tunRet'.result.ok => tunnels' = tunnels
             /\ \A other \in DOMAIN tunnels \ {id} :
                    other \in DOMAIN tunnels' /\ tunnels'[other] = tunnels[other]
             /\ id \in DOMAIN tunnels =>
                    id \in DOMAIN tunnels' /\ tunnels'[id].status = tunnels[id].status]_vars

\* A packet was offered on a registered tunnel left in Rekeying, which had
\* carried traffic before, and was refused.
C10_Witness ==
    /\ tunRet.fn = "receive_packet"
    /\ ~tunRet.result.ok
    /\ tunRet.tunnel_id \in DOMAIN tunnels
    /\ tunnels[tunRet.tunnel_id].status = "Rekeying"
    /\ tunnels[tunRet.tunnel_id].stats.packets_out = 1

\* c differs from the genuine ciphertext g in at least one byte.
DiffersInAByte(c, g) == Len(c) = Len(g) /\ \E i \in 1..Len(g) : c[i] # g[i]

\* What send produced on the tunnel under its current keys.
Wire(id) == tunHist[id].wire

\* C11: receive_packet(id, c') for a c' that differs in at least one byte
\* from a ciphertext send produced for that tunnel (and is itself no such
\* ciphertext) returns an authentication failure, counts nothing into
\* bytes_in or packets_in, and leaves the tunnel Established.
C11_TamperDetected ==
    [][(/\ tunRet'.fn = "receive_packet"
        /\ tunRet'.tunnel_id \in DOMAIN tunnels
        /\ tunnels[tunRet'.tunnel_id].status = "Established"
        /\ tunRet'.packet \notin Wire(tunRet'.tunnel_id)
        /\ \E g \in Wire(tunRet'.tunnel_id) : DiffersInAByte(tunRet'.packet, g)) =>
          /\ ~tunRet'.result.ok
          /\ tunnels' = tunnels]_vars

\* C12: when the local pre-shared key differs from the peer's, the session
\* that reached the authentication exchange ends Deleted, create_tunnel
\* returns AuthenticationFailed, the session was never Established and no
\* tunnel is registered for it; and a session that is Established went
\* through Initial, SaInit, Auth in that order.
C12_PskMismatchIsFatal ==
    (tunRet.fn = "create_tunnel" /\ tunRet.ike_session # None) =>
        LET session == tunRet.ike_session[1]
            reached(st) == \E i \in 1..Len(session.trace) : session.trace[i] = st
        IN  /\ (tunRet.psk # tunRet.peer_psk /\ reached("Auth")) =>
                  /\ tunRet.result = Err("AuthenticationFailed")
                  /\ session.state = "Deleted"
                  /\ ~reached("Established")
                  /\ tunRet.tunnel_id \notin DOMAIN tunnels
            /\ session.state = "Established" =>
                  session.trace = <<"Initial", "SaInit", "Auth", "Established">>

\* C13: every successful send on a tunnel is sealed under a nonce greater
\* than that of every earlier send under the same key, so what it puts on
\* the wire differs from everything sent on that tunnel since the keys were
\* last derived.
C13_NonceNeverRepeats ==
    [][(tunRet'.fn = "send_packet" /\ tunRet'.result.ok) =>
          tunRet'.sealed[1] \notin Wire(tunRet'.tunnel_id)]_vars

ClosedIds == {id \in DOMAIN tunHist : tunHist[id].closed}

\* C15: close_tunnel(id) returns Ok, takes id out of the registry and leaves
\* every other tunnel alone, and on an id that is not registered changes
\* nothing; a closed id never comes back, and every send_packet or
\* receive_packet on it fails and changes no tunnel.  A send that competes
\* with the close for the lock runs wholly before it (and is counted) or
\* wholly after it (and fails).
C15_CloseIsFinal ==
    [][/\ tunRet'.fn = "close_tunnel" =>
            /\ tunRet'.result = Ok(<<>>)
            /\ DOMAIN tunnels' = DOMAIN tunnels \ {tunRet'.tunnel_id}
            /\ \A id \in DOMAIN tunnels' : tunnels'[id] = tunnels[id]
       /\ \A id \in ClosedIds : id \notin DOMAIN tunnels /\ id \notin DOMAIN tunnels'
       /\ (tunRet'.fn \in PacketFns /\ tunRet'.tunnel_id \in ClosedIds) =>
            /\ tunRet'.result = Err("Tunnel not found")
            /\ tunnels' = tunnels]_vars

\* Tunnel 1 was registered and closed; tunnel 2 is registered and has sent a
\* packet; a send on tunnel 1 has just failed.
C15_Witness ==
    /\ 1 \in ClosedIds
    /\ 2 \in DOMAIN tunnels
    /\ tunnels[2].stats.packets_out = 1
    /\ tunRet.fn = "send_packet"
    /\ tunRet.tunnel_id = 1
    /\ ~tunRet.result.ok

\* C16: for every registered tunnel, packets_out is the number of
\* successful send_packet calls and bytes_out the sum of their payload
\* lengths, packets_in and bytes_in likewise for receive_packet; a send
\* leaves the in-counters alone, a receive the out-counters, and a failed
\* call every counter.
C16_TrafficAccounting ==
    /\ \A id \in DOMAIN tunnels :
          /\ tunnels[id].stats.packets_out = tunHist[id].sends
          /\ tunnels[id].stats.bytes_out = tunHist[id].send_bytes
          /\ tunnels[id].stats.packets_in = tunHist[id].recvs
          /\ tunnels[id].stats.bytes_in = tunHist[id].recv_bytes
    /\ [][/\ \A id \in DOMAIN tunnels' :
                /\ tunnels'[id].stats.packets_out = tunHist'[id].sends
                /\ tunnels'[id].stats.bytes_out = tunHist'[id].send_bytes
                /\ tunnels'[id].stats.packets_in = tunHist'[id].recvs
                /\ tunnels'[id].stats.bytes_in = tunHist'[id].recv_bytes
          /\ tunRet'.fn \in PacketFns =>
                \A id \in DOMAIN tunnels :
                    /\ id \in DOMAIN tunnels'
                    /\ ~tunRet'.result.ok => tunnels'[id].stats = tunnels[id].stats
                    /\ tunRet'.fn = "send_packet" =>
                          /\ tunnels'[id].stats.packets_in = tunnels[id].stats.packets_in
                          /\ tunnels'[id].stats.bytes_in = tunnels[id].stats.bytes_in
                    /\ tunRet'.fn = "receive_packet" =>
                          /\ tunnels'[id].stats.packets_out = tunnels[id].stats.packets_out
                          /\ tunnels'[id].stats.bytes_out = tunnels[id].stats.bytes_out]_vars

\* A tunnel has sent one two-byte packet and has just received an empty one.
C16_Witness ==
    /\ tunRet.fn = "receive_packet"
    /\ tunRet.result.ok
    /\ tunRet.packet = << >>
    /\ tunnels[tunRet.tunnel_id].stats =
          [bytes_in |-> 0, bytes_out |-> 2, packets_in |-> 1, packets_out |-> 1]

(* The transitions of the session table.  Every state may fall back to Idle *)
(* (close, socket error, protocol violation).                               *)
SessionTable ==
    {<<"Idle", "Active">>, <<"Idle", "Connect">>, <<"Connect", "OpenSent">>,
     <<"Active", "OpenConfirm">>, <<"OpenSent", "OpenConfirm">>,
     <<"OpenConfirm", "Established">>} \cup
    {<<st, "Idle">> : st \in {"Connect", "Active", "OpenSent", "OpenConfirm", "Established"}}

\* C17: every state change of a peering session is a transition of the
\* session table (Established is entered only from OpenConfirm), and the
\* session a successful connect_to_peer returns is in OpenConfirm.
C17_SessionTable ==
    [][/\ (bgpSess.state # "none" /\ bgpSess'.state # bgpSess.state)
            => <<bgpSess.state, bgpSess'.state>> \in SessionTable
       /\ (bgpRet'.fn = "connect_to_peer" /\ bgpRet'.result.ok)
            => bgpSess'.state = "OpenConfirm"]_vars

InLoop(c) == c \in DOMAIN bgpDrv /\ bgpDrv[c].pc = "loop"
HasExited(c) == c \in DOMAIN bgpDrv /\ bgpDrv[c].pc = "exited"

\* C18: a driver in its keepalive loop that has heard nothing from the peer
\* for hold_time (three keepalive periods) eventually exits, even though
\* its keepalives keep being sent.
C18_HoldTimerExpires ==
    \A c \in ConnIds :
        [](InLoop(c) /\ bgpDrv[c].silent >= HoldPeriods => <>HasExited(c))

ReceiveFns == {"handle_bgp_connection", "keepalive_receive"}

Oversized(input) == input.kind = "frame" /\ input.length > 65536

\* C19: receive_message returns a Protocol error exactly when the length
\* prefix exceeds 65,536; on rejection no payload byte is read, nothing is
\* delivered to the message handler and the connection's driver has exited.
C19_FrameSizeLimit ==
    bgpRet.fn \in ReceiveFns =>
        /\ (~bgpRet.result.ok /\ bgpRet.result.kind = "Protocol") <=> Oversized(bgpRet.input)
        /\ Oversized(bgpRet.input) =>
              /\ bgpRet.payload_read = 0
              /\ bgpRet.delivered = None
              /\ HasExited(bgpRet.conn)
        /\ (bgpRet.input.kind = "frame" /\ bgpRet.input.length = 65536
              /\ bgpRet.input.body \in BGPMessageType) => bgpRet.result.ok

C19_Witness ==
    /\ bgpRet.fn = "keepalive_receive"
    /\ bgpRet.input.kind = "frame"
    /\ bgpRet.input.length = 65537
    /\ bgpRet.result = BgpErr("Protocol", "Message too large")
    /\ HasExited(bgpRet.conn)

DriverFns == {"handle_bgp_connection", "keepalive_tick", "keepalive_receive"}

\* C20: whatever happens on one connection, the accept loop keeps accepting
\* and a step of one connection's driver leaves every other driver as it was.
C20_SessionIsolation ==
    /\ bgpListener = "accepting"
    /\ [][/\ bgpListener' = "accepting"
          /\ bgpRet'.fn \in DriverFns =>
                \A c \in DOMAIN bgpDrv : c # bgpRet'.conn => bgpDrv'[c] = bgpDrv[c]
          /\ \A c \in DOMAIN bgpDrv : c \in DOMAIN bgpDrv']_vars

C20_Witness ==
    /\ HasExited(1)
    /\ ~bgpDrv[1].exit.val.ok
    /\ bgpRet = [fn |-> "accept", conn |-> 2, result |-> Ok(<<>>)]

InPath(asn, as_path) == \E i \in 1..Len(as_path) : as_path[i] = asn

UpdateDelivered(ret) ==
    /\ ret.fn = "keepalive_receive"
    /\ ret.delivered # None
    /\ ret.delivered[1].message_type = "Update"

\* The route as it would be installed: the peer's ASN put before its path.
Prepended(route, peer_asn) == [route EXCEPT !.as_path = <<peer_asn>> \o @]

\* C21: an Update whose routes all carry the local ASN in their as_path
\* leaves the route table (routes and version) as it was, and no route
\* carrying the local ASN is put into the table by any Update.
C21_LoopRejection ==
    [][UpdateDelivered(bgpRet') =>
          LET routes == bgpRet'.delivered[1].routes
          IN  /\ (\A i \in 1..Len(routes) : InPath(LocalAsn, routes[i].as_path)) => rib' = rib
              /\ \A i \in 1..Len(routes) :
                    InPath(LocalAsn, routes[i].as_path) =>
                        \A n \in DOMAIN rib'.routes :
                            rib'.routes[n] \in {routes[i], Prepended(routes[i], PeerAsn)}
                                => n \in DOMAIN rib.routes /\ rib.routes[n] = rib'.routes[n]]_vars

\* An Update whose route's path holds the local ASN has been handled while
\* the table already held a route to the same prefix.
C21_Witness ==
    /\ UpdateDelivered(bgpRet)
    /\ bgpRet.delivered[1].routes # << >>
    /\ InPath(LocalAsn, bgpRet.delivered[1].routes[1].as_path)
    /\ bgpRet.delivered[1].routes[1].network \in DOMAIN rib.routes
    /\ bgpDrv[bgpRet.conn].pc = "loop"

\* C22: when a driver in its keepalive loop receives an Update, every route
\* of it that passes should_accept_route is afterwards in the route table
\* with the peer's ASN before its as_path, the version has increased, and
\* the driver is still in the loop.
C22_UpdateApplied ==
    [][UpdateDelivered(bgpRet') =>
          LET routes == bgpRet'.delivered[1].routes
          IN  \A i \in 1..Len(routes) :
                  (\A tier \in NodeTier : should_accept_route(tier, routes[i], PeerAsn)) =>
                      /\ get_route(rib', routes[i].network) = Some(Prepended(routes[i], PeerAsn))
                      /\ rib'.version > rib.version
                      /\ bgpDrv'[bgpRet'.conn].pc = "loop"]_vars

GuardedFns == {"start_keepalive", "send_update"}

\* C23: start_keepalive and send_update return Ok exactly on an Established
\* session and otherwise the Protocol error, and leave the session as it
\* was; close leaves the session in Idle.
C23_SessionGuards ==
    [][/\ bgpRet'.fn \in GuardedFns =>
            /\ bgpSess' = bgpSess
            /\ bgpRet'.result.ok <=> bgpSess.state = "Established"
            /\ ~bgpRet'.result.ok =>
                  bgpRet'.result = BgpErr("Protocol", "Session not established")
       /\ bgpRet'.fn = "close" => bgpSess'.state = "Idle"]_vars

\* send_update has failed on a session that was Established and then closed.
C23_Witness ==
    /\ bgpRet.fn = "send_update"
    /\ ~bgpRet.result.ok
    /\ bgpSess.state = "Idle"
    /\ \E i \in 1..Len(bgpSess.trace) : bgpSess.trace[i] = "Established"

ReservedName(name) == ends_with(name, <<".", "v", "x", "0">>) \/ name = Name_vx0_network

RecordsOf(recs, name) == IF name \in DOMAIN recs THEN recs[name] ELSE << >>

\* C24: register_service(name, ip) returns InvalidDomain and leaves the
\* record store as it was when name neither ends in ".vx0" nor is
\* "vx0.network"; otherwise it returns Ok, appends exactly one A record with
\* ttl 300 holding ip to the records of name, and changes no other name's
\* records.
C24_RegisterGuard ==
    [][dnsRet'.fn = "register_service" =>
          LET name == dnsRet'.domain
          IN  IF ~ReservedName(name)
              THEN dnsRet'.result = "InvalidDomain" /\ records' = records
              ELSE /\ dnsRet'.result = "Ok"
                   /\ DOMAIN records' = DOMAIN records \cup {name}
                   /\ Len(records'[name]) = Len(RecordsOf(records, name)) + 1
                   /\ SubSeq(records'[name], 1, Len(records'[name]) - 1)
                         = RecordsOf(records, name)
                   /\ LET added == records'[name][Len(records'[name])]
                      IN  /\ added.name = name
                          /\ added.record_type = "A"
                          /\ added.ttl = 300
                          /\ ParseIpAddr(added.data) = Some(dnsRet'.ip)
                   /\ \A other \in DOMAIN records : other # name =>
                          records'[other] = records[other]]_vars

\* A name that already had a record has been registered again.
C24_Witness ==
    /\ dnsRet.fn = "register_service"
    /\ dnsRet.result = "Ok"
    /\ Len(records[dnsRet.domain]) = 2

ResolveFns == {"resolve_vx0_domain", "resolve"}

\* C25: a reserved name with stored records resolves to the IP of its
\* earliest-added A record that parses: registering a name again does not
\* change what it resolves to, a name registered for the first time
\* resolves to the IP registered, "vx0.network" resolves to 10.0.1.1 and
\* "gateway.vx0" to 10.0.0.1 whatever has been registered.
C25_ResolutionOrder ==
    [][/\ resolve_vx0_domain(records', Name_vx0_network).ip = Some(<<10, 0, 1, 1>>)
       /\ resolve_vx0_domain(records', Name_gateway_vx0).ip = Some(<<10, 0, 0, 1>>)
       /\ (dnsRet'.fn = "register_service" /\ dnsRet'.result = "Ok") =>
             LET name == dnsRet'.domain
             IN  /\ Vx0Resolver_resolve(records', name).ip
                       = resolve_vx0_domain(records', name).ip
                 /\ resolve_vx0_domain(records', name).ip
                       = IF name \in DOMAIN records
                         THEN resolve_vx0_domain(records, name).ip
                         ELSE Some(dnsRet'.ip)
       /\ (dnsRet'.fn \in ResolveFns /\ dnsRet'.domain \in DOMAIN records
              /\ ReservedName(dnsRet'.domain)) =>
             \E i \in 1..Len(records[dnsRet'.domain]) :
                /\ dnsRet'.result.ip = ParseIpAddr(records[dnsRet'.domain][i].data)
                /\ \A j \in 1..(i - 1) :
                      ParseIpAddr(records[dnsRet'.domain][j].data) = None]_vars

\* "vx0.network" has been registered with another address and resolved.
C25_Witness ==
    /\ dnsRet.fn = "resolve"
    /\ dnsRet.domain = Name_vx0_network
    /\ Len(records[Name_vx0_network]) >= 2
    /\ dnsRet.result.ip = Some(<<10, 0, 1, 1>>)

\* C26: stop() leaves the set of peer ids as it was and every peer
\* Disconnected, and a stop() directly after a stop() changes nothing.
C26_StopDisconnectsAll ==
    [][nodeRet'.fn = "stop" =>
          /\ nodeRet'.result = "Ok"
          /\ DOMAIN peers' = DOMAIN peers
          /\ \A id \in DOMAIN peers' :
                /\ peers'[id].status = "Disconnected"
                /\ peers'[id].peer_asn = peers[id].peer_asn
          /\ node' = node
          /\ stop(peers') = peers'
          /\ nodeRet.fn = "stop" => peers' = peers]_vars

\* stop() has run on a node with two peers, one of them not Disconnected.
C26_Witness ==
    /\ nodeRet.fn = "stop"
    /\ nodeRet.disconnected >= 1
    /\ Cardinality(DOMAIN peers) >= 2

JoinFns == {"join_network", "establish_initial_connections"}

Peerable(tier, asn) ==
    \/ tier = "Backbone" /\ 65000 <= asn /\ asn <= 65999
    \/ tier = "Regional"
    \/ tier = "Edge" /\ 65100 <= asn /\ asn <= 65999

\* C27: with N candidates in the response, the peers registered are the
\* connections that succeeded, at most min(3, N) of them; no candidate is
\* tried once that many have succeeded; no candidate and no registered
\* peer is of a tier the local tier cannot peer with; and the result is the
\* Network error exactly when no connection succeeded.
C27_InitialConnections ==
    [][nodeRet'.fn \in JoinFns =>
          LET N == Len(nodeRet'.bootstrap_peers)
              cap == IF N < 3 THEN N ELSE 3
              added == DOMAIN peers' \ DOMAIN peers
          IN  /\ Cardinality(added) = nodeRet'.connected_count
              /\ DOMAIN peers \subseteq DOMAIN peers'
              /\ nodeRet'.connected_count <= cap
              /\ nodeRet'.attempts <= N
              /\ nodeRet'.connected_count < cap => nodeRet'.attempts = N
              /\ (nodeRet'.connected_count = cap /\ cap > 0) => nodeRet'.last = "Ok"
              /\ \A i \in 1..N : Peerable(node.tier, nodeRet'.bootstrap_peers[i].asn)
              /\ \A id \in added : Peerable(node.tier, peers'[id].peer_asn)
              /\ nodeRet'.result = "NetworkError" <=> nodeRet'.connected_count = 0
              /\ nodeRet'.result \in {"NetworkError", "Ok"}]_vars

\* Four candidates, the second failing: the loop stopped after the third
\* success without trying more than four, and three peers were registered.
C27_Witness ==
    /\ nodeRet.fn = "establish_initial_connections"
    /\ Len(nodeRet.bootstrap_peers) = 4
    /\ nodeRet.connected_count = 3
    /\ nodeRet.attempts = 4
    /\ nodeRet.result = "Ok"
    /\ Cardinality(DOMAIN peers) = 3

\* C28: the shipped test's two nodes (tier "Edge", ASN 65001 and 65002, the
\* first being the built-in defaults) are constructed by Vx0Node::new and
\* add each other as peers, so that both end with a peer count of 1.
C28_ProofOfConcept ==
    nodeRet.fn = "simple_test" =>
        /\ nodeRet.result = "Ok"
        /\ node.state = "constructed"
        /\ nodeRet.node1_peers = 1
        /\ nodeRet.node2_peers = 1

\* C29: whatever the interleaving of concurrent add_peer calls, the peer map
\* never holds more than max_peers(tier) entries.
C29_PeerCapUnderConcurrency ==
    node.state = "constructed" => Cardinality(DOMAIN peers) <= max_peers(node.tier)

\* C30: in the keepalive loop the frames handed to the message handler are
\* the peer's frames, each once and in stream order, no byte of the stream is
\* dropped and no payload byte is read as a length prefix, whatever the
\* interleaving of timer ticks with the reading of a frame.
C30_FrameDelivery ==
    bgpStream.phase # "none" =>
        /\ bgpStream.lost = 0
        /\ ~bgpStream.misread
        /\ bgpStream.delivered =
              [i \in 1..Len(bgpStream.delivered) |->
                  [frame |-> i, message_type |-> bgpStream.frames[i]]]

\* C34: every peer a join registered has a peer->tunnel entry under its own
\* peer id, so that send_secure_data to it, as announce_to_network does for
\* every peer of the map, finds a tunnel.
C34_PeerTunnelKeys ==
    nodeRet.fn \in JoinFns =>
        \A id \in nodeRet.added :
            /\ id \in DOMAIN activeTunnels
            /\ send_secure_data(activeTunnels, tunnels, id, <<69, 0>>) = "Ok"

\* C31: no operation of the node or the tunnel manager takes one of the
\* shared locks while it holds another; send_secure_data, close_tunnel and
\* tunnel_health_check have released the peer->tunnel map before they lock
\* the tunnel registry.
C31_OneLockAtATime ==
    \A t \in DOMAIN opTask : \A a \in opTask[t].acquired : a.holding = {}

\* C32: no operation sleeps holding a lock: rekey_tunnel does not keep the
\* registry's write guard during the rekey exchange, and no send on another
\* tunnel waits for the registry while a rekey sleeps.
C32_NoLockAcrossSleep ==
    \A t \in Running :
        opTask[t].pc = "sleep" =>
            /\ opTask[t].held = << >>
            /\ \A u \in Running :
                  opTask[u].pc = "send" /\ opTask[u].tunnel_id # opTask[t].tunnel_id
                      => CanWrite(RegistryLock, u)

\* C33: every operation a task has started completes, and a lock is only
\* ever taken in the order peer->tunnel map, then tunnel registry: the map is
\* locked with nothing held, the registry with at most the map held.
C33_DeadlockFreedom ==
    /\ [](\A t \in DOMAIN opTask : \A a \in opTask[t].acquired :
              /\ a.lock = MapLock => a.holding = {}
              /\ a.lock = RegistryLock => a.holding \subseteq {MapLock})
    /\ \A t \in OpTasks : (t \in Running) ~> (t \notin Running)

\* A send holds the map's read guard and waits for the registry, which a
\* sleeping rekey holds; the other way round never happens.
C33_Witness ==
    \E t, u \in Running :
        /\ opTask[t].op = "send_secure_data" /\ opTask[t].pc = "send"
        /\ HeldLocks(opTask[t]) = {MapLock}
        /\ opTask[u].pc = "sleep"
        /\ ~CanWrite(RegistryLock, t)

\* C35: with no operation in progress, every tunnel of the registry is the
\* value of exactly one peer->tunnel entry and every peer->tunnel entry
\* names a tunnel of the registry.
C35_RegistryMapCorrespondence ==
    (node.state = "constructed" /\ Running = {}) =>
        /\ \A id \in DOMAIN tunnels :
              Cardinality({p \in DOMAIN activeTunnels : activeTunnels[p] = id}) = 1
        /\ \A p \in DOMAIN activeTunnels : activeTunnels[p] \in DOMAIN tunnels

\* C36: under FullTable should_accept_route is true exactly when the local
\* ASN is absent from the route's as_path, and under RegionalFilter a route
\* whose as_path contains the local ASN is refused whatever the peer's tier.
C36_AcceptLoopPrevention ==
    bgpRet.fn = "should_accept_route" =>
        LET route_policy == route_advertisement_policy(bgpRet.policy.node_tier)
            looped == InPath(bgpRet.policy.local_asn, bgpRet.route.as_path)
        IN  /\ route_policy = "FullTable" => (bgpRet.result <=> ~looped)
            /\ (route_policy = "RegionalFilter" /\ looped) => ~bgpRet.result

\* C37: under RegionalFilter should_advertise_route is true to a Backbone
\* peer iff prefix_len <= 16, to a Regional peer iff the peer's ASN is not in
\* the as_path, and to an Edge peer iff the route is 0.0.0.0/0 or 10.0.0.0/8
\* or has prefix_len >= 24 and local_pref >= 100.
C37_RegionalAdvertisement ==
    (/\ bgpRet.fn = "should_advertise_route"
     /\ route_advertisement_policy(bgpRet.policy.node_tier) = "RegionalFilter") =>
        LET route == bgpRet.route
            peer_tier == RoutingPolicy_asn_to_tier(bgpRet.peer_asn)
        IN  bgpRet.result <=>
               CASE peer_tier = "Backbone" -> route.network.len <= 16
                 [] peer_tier = "Regional" -> ~InPath(bgpRet.peer_asn, route.as_path)
                 [] peer_tier = "Edge" ->
                       \/ route.network \in {Net4(0, 0, 0, 0, 0), Net4(10, 0, 0, 0, 8)}
                       \/ route.network.len >= 24 /\ route.local_pref >= 100

\* C38: evaluate_route(route) = local_pref + floor(100 / max(1, |as_path|))
\* + 10 for IGP, 5 for EGP, 0 for Incomplete, an empty as_path included.
C38_BestPathScore ==
    bgpRet.fn = "evaluate_route" =>
        LET route == bgpRet.route
            hops == IF Len(route.as_path) < 1 THEN 1 ELSE Len(route.as_path)
            bonus == CASE route.origin = "IGP" -> 10
                       [] route.origin = "EGP" -> 5
                       [] route.origin = "Incomplete" -> 0
        IN  bgpRet.result = route.local_pref + (100 \div hops) + bonus

\* C39: select_best_route returns None exactly for the empty list; otherwise
\* it returns the earliest candidate among those whose evaluate_route score
\* is the highest of the list.
C39_SelectBestRoute ==
    bgpRet.fn = "select_best_route" =>
        LET routes == bgpRet.routes
        IN  /\ bgpRet.result = None <=> routes = << >>
            /\ routes # << >> =>
                  \E i \in 1..Len(routes) :
                     /\ bgpRet.result = Some(routes[i])
                     /\ \A j \in 1..Len(routes) :
                           evaluate_route(routes[j]) <= evaluate_route(routes[i])
                     /\ \A j \in 1..(i - 1) :
                           evaluate_route(routes[j]) < evaluate_route(routes[i])

\* The list of tests::test_best_route_selection with a third route tying the
\* first on the score: the route with local_pref 150, EGP and three hops wins.
\* And a list whose two best routes tie: the earlier one is returned.
C39_Witness ==
    /\ bgpRet.fn = "select_best_route"
    /\ Len(bgpRet.routes) = 3
    /\ \E i, j \in 1..3 :
          /\ i < j
          /\ bgpRet.routes[i] # bgpRet.routes[j]
          /\ evaluate_route(bgpRet.routes[i]) = evaluate_route(bgpRet.routes[j])
          /\ bgpRet.result = Some(bgpRet.routes[i])
          /\ \A k \in 1..3 : evaluate_route(bgpRet.routes[k]) <= evaluate_route(bgpRet.routes[i])

\* C40: create_vx0_network_record returns Ok and leaves the record store as
\* it was, however often it is called; on a freshly constructed server the
\* records of "vx0.network" are then exactly one record, with data 10.0.1.1.
C40_CreateRecordIdempotent ==
    [][dnsRet'.fn = "create_vx0_network_record" =>
          /\ dnsRet'.result = "Ok"
          /\ records' = records
          /\ create_vx0_network_record(records')[2] = records'
          /\ records = Vx0DNS_new =>
                /\ Len(records'[Name_vx0_network]) = 1
                /\ records'[Name_vx0_network][1].data = <<"1","0",".","0",".","1",".","1">>]_vars

\* The call has been made on a server nothing was registered on.
C40_Witness ==
    /\ dnsRet.fn = "create_vx0_network_record"
    /\ records = Vx0DNS_new
    /\ Len(records[Name_vx0_network]) = 1

=============================================================================
